---- MODULE Spec2Model ----
(***************************************************************************)
(* Model of the elements-miniscript descriptor core:                       *)
(*   src/src/descriptor/bare.rs            Bare, Pkh                       *)
(*   src/src/descriptor/pretaproot.rs      PreTaprootDescriptor            *)
(*   src/src/descriptor/covenants/cov.rs   CovenantDescriptor              *)
(*                                                                         *)
(* The library is purely functional.  The state is the descriptor object   *)
(* most recently constructed (desc) and a record of the call in progress:  *)
(* which operation (op), on which input (arg), with which result (out).    *)
(* A caller makes one call at a time and drops its result (Return) before  *)
(* the next one.                                                           *)
(* Strings are sequences of one-character strings, so that formatting and  *)
(* parsing are real conversions.                                           *)
(***************************************************************************)
EXTENDS Integers, Sequences, FiniteSets, TLC

VARIABLES desc, op, arg, out

vars == <<desc, op, arg, out>>

(***************************************************************************)
(* Results (Rust's Result<T, E>) and errors                                *)
(***************************************************************************)
Ok(v) == [ok |-> TRUE, val |-> v]

Err(e) == [ok |-> FALSE, err |-> e]

E(kind) == [kind |-> kind]

IsOk(r) == r.ok

IsErrKind(r, kind) == (~r.ok) /\ r.err.kind = kind

None == [some |-> FALSE]

Some(v) == [some |-> TRUE, v |-> v]

Min(S) == CHOOSE x \in S : \A y \in S : x <= y

(***************************************************************************)
(* Characters and keys                                                     *)
(***************************************************************************)
\* The keys of the model: a generic Pk whose text form is one character.
Keys == {"A", "B", "C"}

\* The characters a descriptor string can contain here (a part of
\* expression::INPUT_CHARSET), in a fixed order that gives each its code.
INPUT_CHARSET ==
    <<"0", "1", "2", "3", "4", "5", "6", "7", "8", "9", "(", ")", ",",
      "a", "b", "c", "d", "e", "f", "g", "h", "i", ":", "_", "j", "k", "l", "m", "n",
      "o", "p",
      "q", "r", "s", "t", "u", "v", "w", "x", "y", "z", "A", "B", "C", "#">>

\* descriptor/checksum.rs CHECKSUM_CHARSET: the 32 characters of a tag.
CHECKSUM_CHARSET ==
    <<"q", "p", "z", "r", "y", "9", "x", "8", "g", "f", "2", "t", "v", "d", "w", "0",
      "s", "3", "j", "n", "5", "4", "k", "h", "c", "e", "6", "m", "u", "a", "7", "l">>

Range(s) == {s[i] : i \in 1..Len(s)}

CharCode(ch) ==
    IF ch \in Range(INPUT_CHARSET)
    THEN Min({i \in 1..Len(INPUT_CHARSET) : INPUT_CHARSET[i] = ch})
    ELSE 0

\* ELMTS_STR, the namespace prefix of every Elements descriptor.
ELMTS_STR == <<"e", "l">>

starts_with(s, prefix) ==
    Len(s) >= Len(prefix) /\ SubSeq(s, 1, Len(prefix)) = prefix

\* &s[n..] : the suffix of s after its first n characters
SliceFrom(s, n) == SubSeq(s, n + 1, Len(s))

(***************************************************************************)
(* Checksum codec (descriptor/checksum.rs)                                 *)
(***************************************************************************)
\* Length of a checksum tag.
CHECKSUM_LEN == 8

\* The running checksum: each character is folded into the state, modulo a
\* prime above every character code, so one changed character changes it.
RECURSIVE PolyMod(_, _)
PolyMod(c, s) ==
    IF s = <<>> THEN c
    ELSE PolyMod((c * 31 + CharCode(Head(s))) % 7919, Tail(s))

RECURSIVE TagChars(_, _)
TagChars(c, n) ==
    IF n = 0 THEN <<>>
    ELSE Append(TagChars(c \div 32, n - 1), CHECKSUM_CHARSET[(c % 32) + 1])

\* desc_checksum: the tag of a descriptor string; fails on a character
\* outside the input character set.
desc_checksum(s) ==
    IF \E i \in 1..Len(s) : s[i] \notin Range(INPUT_CHARSET)
    THEN Err(E("BadDescriptor"))
    ELSE Ok(TagChars(PolyMod(1, s), CHECKSUM_LEN))

\* verify_checksum: exactly one '#', followed by the tag of the prefix;
\* returns the prefix.
verify_checksum(s) ==
    LET seps == {i \in 1..Len(s) : s[i] = "#"} IN
    IF Cardinality(seps) # 1 THEN Err(E("BadChecksum"))
    ELSE LET n == Min(seps)
             body == SubSeq(s, 1, n - 1)
             tag == SliceFrom(s, n)
             expected == desc_checksum(body)
         IN IF ~expected.ok THEN Err(E("BadChecksum"))
            ELSE IF tag # expected.val THEN Err(E("BadChecksum"))
            ELSE Ok(body)

(***************************************************************************)
(* Expression trees (expression.rs)                                        *)
(***************************************************************************)
Tree(name, args) == [name |-> name, args |-> args]

FirstDelim(sl) ==
    LET idx == {n \in 1..Len(sl) : sl[n] \in {"(", ",", ")"}} IN
    IF idx = {} THEN 0 ELSE Min(idx)

RECURSIVE from_slice(_)
RECURSIVE from_slice_args(_, _, _)
\* Tree::from_slice: [ok, tree, rest] or an error
from_slice(sl) ==
    LET n == FirstDelim(sl) IN
    IF n = 0 THEN [ok |-> TRUE, tree |-> Tree(sl, <<>>), rest |-> <<>>]
    ELSE IF sl[n] \in {",", ")"}
    THEN [ok |-> TRUE, tree |-> Tree(SubSeq(sl, 1, n - 1), <<>>),
          rest |-> SliceFrom(sl, n - 1)]
    ELSE from_slice_args(SubSeq(sl, 1, n - 1), <<>>, SliceFrom(sl, n))

\* the argument loop of a function call: name(arg, arg, ...)
from_slice_args(name, args, sl) ==
    LET a == from_slice(sl) IN
    IF ~a.ok THEN a
    ELSE IF a.rest = <<>> THEN [ok |-> FALSE, err |-> E("ExpectedChar")]
    ELSE IF a.rest[1] = ","
    THEN from_slice_args(name, Append(args, a.tree), Tail(a.rest))
    ELSE IF a.rest[1] = ")"
    THEN [ok |-> TRUE, tree |-> Tree(name, Append(args, a.tree)),
          rest |-> Tail(a.rest)]
    ELSE [ok |-> FALSE, err |-> E("ExpectedChar")]

\* expression::Tree::from_str
Tree_from_str(s) ==
    IF \E i \in 1..Len(s) : s[i] \notin Range(INPUT_CHARSET)
    THEN Err(E("Unprintable"))
    ELSE LET r == from_slice(s) IN
         IF ~r.ok THEN Err(r.err)
         ELSE IF r.rest # <<>> THEN Err(E("Unexpected"))
         ELSE Ok(r.tree)

\* <Pk as FromStr>::from_str on the name of a terminal
Key_from_str(name) ==
    IF Len(name) = 1 /\ name[1] \in Keys THEN Ok(name[1]) ELSE Err(E("KeyParse"))

\* expression::terminal: the node must have no arguments
terminal_key(t) ==
    IF t.args # <<>> THEN Err(E("Unexpected")) ELSE Key_from_str(t.name)

(***************************************************************************)
(* Miniscript (miniscript/mod.rs, astelem.rs, types/extra_props.rs,        *)
(* context.rs): the fragments pk(K) = c:pk_k(K), pkh(H) = c:pk_h(H) and    *)
(* multi(k, K...), with the cached metadata the descriptors read.          *)
(***************************************************************************)
KeyItem(k) == [kind |-> "key", id |-> k]

HashItem(h) == [kind |-> "hash", id |-> h]

\* the bytes of a serialized public key: 65 for the uncompressed key U, 33
\* for every other one
KeyLen(k) == IF k = "U" THEN 65 ELSE 33

\* types::extra_props::ExtData of a fragment of n keys or key hashes
MsExt(frag, n) ==
    CASE frag = "pk" -> [ops_count_sat |-> Some(1), has_free_verify |-> TRUE]
      [] frag = "pkh" -> [ops_count_sat |-> Some(4), has_free_verify |-> TRUE]
      [] frag = "true" -> [ops_count_sat |-> Some(0), has_free_verify |-> FALSE]
      \* 0 has no satisfaction, so no op count of one
      [] frag = "false" -> [ops_count_sat |-> None, has_free_verify |-> FALSE]
      \* pk_k(K) is the key push alone, s:pk(K) is SWAP <K> CHECKSIG
      [] frag = "pk_k" -> [ops_count_sat |-> Some(0), has_free_verify |-> FALSE]
      [] frag = "pk_h" -> [ops_count_sat |-> Some(3), has_free_verify |-> FALSE]
      [] frag = "s:pk" -> [ops_count_sat |-> Some(2), has_free_verify |-> TRUE]
      \* thresh(k, pk(K), s:pk(K), ...) of n subexpressions, k <= 16: one
      \* CHECKSIG for the first, SWAP CHECKSIG for each other, n - 1 ADD and
      \* the final EQUAL
      [] frag = "thresh" -> [ops_count_sat |-> Some(3 * n - 1), has_free_verify |-> TRUE]
      \* multi(k, K...): CHECKMULTISIG and one op for each key
      [] OTHER -> [ops_count_sat |-> Some(n + 1), has_free_verify |-> TRUE]

Ms(frag, k, items) ==
    [frag |-> frag, k |-> k, items |-> items, ext |-> MsExt(frag, Len(items))]

MsPk(key) == Ms("pk", 0, <<KeyItem(key)>>)

MsPkh(hash) == Ms("pkh", 0, <<HashItem(hash)>>)

MsMulti(k, keys) == Ms("multi", k, [i \in 1..Len(keys) |-> KeyItem(keys[i])])

\* A Miniscript whose syntax tree the model does not enumerate: only its
\* cached metadata and the size of its script are given.
MsOpaque(ops, fv, size) ==
    [frag |-> "opaque", k |-> 0, items |-> <<>>,
     ext |-> [ops_count_sat |-> ops, has_free_verify |-> fv], size |-> size]

Enumerated(ms) == ms.frag # "opaque"

IsUncompressed(item) == item.id = "U"

\* Miniscript::script_size: the bytes of the encoded script, computed from
\* the fragment; a key push is one byte and the key, 33 bytes compressed and
\* 65 uncompressed.  An opaque Miniscript carries its size.
Ms_script_size(ms) ==
    LET n == Len(ms.items)
        keys == 33 * n + 32 * Len(SelectSeq(ms.items, IsUncompressed))
    IN
    CASE ms.frag = "opaque" -> ms.size
      [] ms.frag = "pk" -> keys + 2
      [] ms.frag = "pkh" -> 25
      [] ms.frag \in {"true", "false"} -> 1
      [] ms.frag = "pk_k" -> keys + 1
      [] ms.frag = "pk_h" -> 24
      [] ms.frag = "s:pk" -> keys + 3
      \* <K> CHECKSIG, SWAP <K> CHECKSIG ADD for each other key, k and EQUAL
      [] ms.frag = "thresh" -> keys + 4 * n
      \* multi(k, K...): k, the n key pushes, n and CHECKMULTISIG
      [] OTHER -> 3 + keys + n

\* types::Base of a fragment a descriptor or a tree can hold: s:pk(K) is a
\* W, the key alone and the key hash alone are K, every other one is a B
Base(ms) ==
    CASE ms.frag = "s:pk" -> "W"
      [] ms.frag \in {"pk_k", "pk_h"} -> "K"
      [] OTHER -> "B"

DigitChar(n) == IF n = 1 THEN "1" ELSE "2"

RECURSIVE JoinIds(_)
JoinIds(items) ==
    IF items = <<>> THEN <<>>
    ELSE <<",", Head(items).id>> \o JoinIds(Tail(items))

\* <Miniscript as Display>::fmt
Ms_fmt(ms) ==
    CASE ms.frag = "pk" -> <<"p", "k", "(", ms.items[1].id, ")">>
      [] ms.frag = "pkh" -> <<"p", "k", "h", "(", ms.items[1].id, ")">>
      [] OTHER -> <<"m", "u", "l", "t", "i", "(", DigitChar(ms.k)>>
                  \o JoinIds(ms.items) \o <<")">>

RECURSIVE terminal_keys(_)
\* the keys of a list of terminal nodes, or the first error
terminal_keys(ts) ==
    IF ts = <<>> THEN Ok(<<>>)
    ELSE LET h == terminal_key(Head(ts)) IN
         IF ~h.ok THEN h
         ELSE LET r == terminal_keys(Tail(ts)) IN
              IF ~r.ok THEN r ELSE Ok(<<h.val>> \o r.val)

\* one subexpression of a thresh, pk(K) or s:pk(K): its key
thresh_sub(t) ==
    IF t.name \notin {<<"p", "k">>, <<"s", ":", "p", "k">>} \/ Len(t.args) # 1
    THEN Err(E("Unexpected"))
    ELSE terminal_key(t.args[1])

\* the subexpressions of a thresh are parsed in order, then type-checked:
\* the first is pk(K) (type B), the others s:pk(K) (type W); the keys, or
\* the first error
thresh_subs(ts) ==
    LET r == [i \in 1..Len(ts) |-> thresh_sub(ts[i])]
        bad == {i \in 1..Len(ts) : ~r[i].ok}
        want(i) == IF i = 1 THEN <<"p", "k">> ELSE <<"s", ":", "p", "k">>
    IN IF bad # {} THEN r[CHOOSE i \in bad : \A j \in bad : i <= j]
       ELSE IF \E i \in 1..Len(ts) : ts[i].name # want(i) THEN Err(E("TypeCheck"))
       ELSE Ok([i \in 1..Len(ts) |-> r[i].val])

\* <Miniscript as FromTree>::from_tree
Ms_from_tree(t) ==
    CASE t.name = <<"p", "k">> /\ Len(t.args) = 1 ->
           LET k == terminal_key(t.args[1]) IN
           IF k.ok THEN Ok(MsPk(k.val)) ELSE k
      [] t.name = <<"p", "k", "h">> /\ Len(t.args) = 1 ->
           LET k == terminal_key(t.args[1]) IN
           IF k.ok THEN Ok(MsPkh(k.val)) ELSE k
      \* the wrapper s: type-checks over pk(K) and gives the base type W
      [] t.name = <<"s", ":", "p", "k">> /\ Len(t.args) = 1 ->
           LET k == terminal_key(t.args[1]) IN
           IF k.ok THEN Ok(Ms("s:pk", 0, <<KeyItem(k.val)>>)) ELSE k
      [] t.name = <<"m", "u", "l", "t", "i">> /\ Len(t.args) >= 2 ->
           LET kt == t.args[1]
               ks == terminal_keys(Tail(t.args))
           IN IF kt.args # <<>> \/ kt.name \notin {<<"1">>, <<"2">>}
              THEN Err(E("Unexpected"))
              ELSE IF ~ks.ok THEN ks
              ELSE LET k == IF kt.name = <<"1">> THEN 1 ELSE 2 IN
                   IF k > Len(ks.val) THEN Err(E("TypeCheck"))
                   ELSE Ok(MsMulti(k, ks.val))
      [] t.name = <<"t", "h", "r", "e", "s", "h">> /\ Len(t.args) >= 2 ->
           LET kt == t.args[1]
               ks == thresh_subs(Tail(t.args))
           IN IF kt.args # <<>> \/ kt.name \notin {<<"1">>, <<"2">>}
              THEN Err(E("Unexpected"))
              ELSE IF ~ks.ok THEN ks
              ELSE LET k == IF kt.name = <<"1">> THEN 1 ELSE 2 IN
                   IF k > Len(ks.val) THEN Err(E("TypeCheck"))
                   ELSE Ok(Ms("thresh", k, [i \in 1..Len(ks.val) |-> KeyItem(ks.val[i])]))
      [] OTHER -> Err(E("Unexpected"))

\* Segwitv0::top_level_checks and Legacy::top_level_checks: the top
\* fragment has base type B
Segwitv0_top_level_checks(ms) ==
    IF Base(ms) = "B" THEN Ok("unit") ELSE Err(E("NonTopLevel"))

\* BareCtx::top_level_checks: base type B, then check(pk_k), check(pk_h),
\* or multi of at most three keys
BareCtx_top_level_checks(ms) ==
    IF Base(ms) # "B" THEN Err(E("NonTopLevel"))
    ELSE IF ms.frag \in {"pk", "pkh"} \/ (ms.frag = "multi" /\ Len(ms.items) <= 3)
    THEN Ok("unit")
    ELSE Err(E("NonStandardBareScript"))

(***************************************************************************)
(* Descriptor values                                                       *)
(***************************************************************************)
NoDesc == [variant |-> "none"]

BareD(ms) == [variant |-> "Bare", ms |-> ms]

PkhD(pk) == [variant |-> "Pkh", pk |-> pk]

WpkhD(pk) == [variant |-> "Wpkh", pk |-> pk]

ShD(ms) == [variant |-> "Sh", ms |-> ms]

WshD(ms) == [variant |-> "Wsh", ms |-> ms]

CovD(pk, ms) == [variant |-> "Cov", pk |-> pk, ms |-> ms]

\* PreTaprootDescriptor: the tag is the variant of the wrapped descriptor
PreTaprootD(inner) == [variant |-> "PreTaproot", inner |-> inner]

\* desc#checksum, or fmt::Error
with_checksum(d) ==
    LET c == desc_checksum(d) IN
    IF ~c.ok THEN Err(E("fmt::Error")) ELSE Ok(d \o <<"#">> \o c.val)

(***************************************************************************)
(* Bare (bare.rs)                                                          *)
(***************************************************************************)
Bare_new(ms) ==
    LET c == BareCtx_top_level_checks(ms) IN
    IF ~c.ok THEN c ELSE Ok(BareD(ms))

\* <Bare as Display>::fmt
Bare_fmt(b) == with_checksum(ELMTS_STR \o Ms_fmt(b.ms))

\* <Bare as FromTree>::from_tree
Bare_from_tree(top) ==
    IF starts_with(top.name, ELMTS_STR)
    THEN LET new_tree == Tree(SliceFrom(top.name, 2), top.args)
             sub == Ms_from_tree(new_tree)
         IN IF ~sub.ok THEN sub
            ELSE LET c == BareCtx_top_level_checks(sub.val) IN
                 IF ~c.ok THEN c ELSE Bare_new(sub.val)
    ELSE Err(E("Unexpected"))

\* <Bare as FromStr>::from_str
Bare_from_str(s) ==
    LET desc_str == verify_checksum(s) IN
    IF ~desc_str.ok THEN desc_str
    ELSE IF Len(desc_str.val) < 2 THEN Err(E("panic"))
    ELSE LET top == Tree_from_str(SliceFrom(desc_str.val, 2)) IN
         IF ~top.ok THEN top ELSE Bare_from_tree(top.val)

(***************************************************************************)
(* Pkh (bare.rs)                                                           *)
(***************************************************************************)
Pkh_new(pk) == PkhD(pk)

\* <Pkh as Display>::fmt
Pkh_fmt(p) == with_checksum(ELMTS_STR \o <<"p", "k", "h", "(", p.pk, ")">>)

\* <Pkh as FromTree>::from_tree
Pkh_from_tree(top) ==
    IF top.name = <<"e", "l", "p", "k", "h">> /\ Len(top.args) = 1
    THEN LET pk == terminal_key(top.args[1]) IN
         IF ~pk.ok THEN pk ELSE Ok(Pkh_new(pk.val))
    ELSE Err(E("Unexpected"))

\* the same, reading the descriptor without verifying its checksum
Pkh_from_str_unverified(s) ==
    LET seps == {i \in 1..Len(s) : s[i] = "#"}
        body == IF seps = {} THEN s ELSE SubSeq(s, 1, Min(seps) - 1)
        top == Tree_from_str(body)
    IN IF ~top.ok THEN top ELSE Pkh_from_tree(top.val)

\* <Pkh as FromStr>::from_str
Pkh_from_str(s) ==
    LET desc_str == verify_checksum(s) IN
    IF ~desc_str.ok THEN desc_str
    ELSE LET top == Tree_from_str(desc_str.val) IN
         IF ~top.ok THEN top ELSE Pkh_from_tree(top.val)

(***************************************************************************)
(* Wpkh, Sh, Wsh (segwitv0.rs, sh.rs): the variants the pre-taproot        *)
(* dispatcher forwards to.                                                 *)
(***************************************************************************)
Wpkh_fmt(w) == with_checksum(ELMTS_STR \o <<"w", "p", "k", "h", "(", w.pk, ")">>)

Sh_fmt(d) == with_checksum(ELMTS_STR \o <<"s", "h", "(">> \o Ms_fmt(d.ms) \o <<")">>)

Wsh_fmt(d) ==
    with_checksum(ELMTS_STR \o <<"w", "s", "h", "(">> \o Ms_fmt(d.ms) \o <<")">>)

Wpkh_from_tree(top) ==
    IF top.name = <<"e", "l", "w", "p", "k", "h">> /\ Len(top.args) = 1
    THEN LET pk == terminal_key(top.args[1]) IN
         IF ~pk.ok THEN pk ELSE Ok(WpkhD(pk.val))
    ELSE Err(E("Unexpected"))

Sh_from_tree(top) ==
    IF top.name = <<"e", "l", "s", "h">> /\ Len(top.args) = 1
    THEN LET sub == Ms_from_tree(top.args[1]) IN
         IF ~sub.ok THEN sub
         ELSE LET c == Segwitv0_top_level_checks(sub.val) IN
              IF ~c.ok THEN c ELSE Ok(ShD(sub.val))
    ELSE Err(E("Unexpected"))

Wsh_from_tree(top) ==
    IF top.name = <<"e", "l", "w", "s", "h">> /\ Len(top.args) = 1
    THEN LET sub == Ms_from_tree(top.args[1]) IN
         IF ~sub.ok THEN sub
         ELSE LET c == Segwitv0_top_level_checks(sub.val) IN
              IF ~c.ok THEN c ELSE Ok(WshD(sub.val))
    ELSE Err(E("Unexpected"))

(***************************************************************************)
(* PreTaprootDescriptor (pretaproot.rs)                                    *)
(***************************************************************************)
\* <PreTaprootDescriptor as Display>::fmt
PreTaproot_fmt(d) ==
    CASE d.inner.variant = "Bare" -> Bare_fmt(d.inner)
      [] d.inner.variant = "Pkh" -> Pkh_fmt(d.inner)
      [] d.inner.variant = "Wpkh" -> Wpkh_fmt(d.inner)
      [] d.inner.variant = "Sh" -> Sh_fmt(d.inner)
      [] OTHER -> Wsh_fmt(d.inner)

\* wrap a variant's result in the dispatcher's enum
Wrapped(r) == IF ~r.ok THEN r ELSE Ok(PreTaprootD(r.val))

\* <PreTaprootDescriptor as FromTree>::from_tree
PreTaproot_from_tree(top) ==
    CASE top.name = <<"p", "k", "h">> /\ Len(top.args) = 1 ->
           Wrapped(Pkh_from_tree(top))
      [] top.name = <<"w", "p", "k", "h">> /\ Len(top.args) = 1 ->
           Wrapped(Wpkh_from_tree(top))
      [] top.name = <<"s", "h">> /\ Len(top.args) = 1 ->
           Wrapped(Sh_from_tree(top))
      [] top.name = <<"w", "s", "h">> /\ Len(top.args) = 1 ->
           Wrapped(Wsh_from_tree(top))
      [] OTHER -> Wrapped(Bare_from_tree(top))

\* <PreTaprootDescriptor as FromStr>::from_str
PreTaproot_from_str(s) ==
    LET desc_str == verify_checksum(s) IN
    IF ~desc_str.ok THEN desc_str
    ELSE LET top == Tree_from_str(desc_str.val) IN
         IF ~top.ok THEN top ELSE PreTaproot_from_tree(top.val)

(***************************************************************************)
(* Scripts, as the sequence of tokens the lexer reads                      *)
(***************************************************************************)
Tk(t) == [t |-> t]

TkPubkey(k) == [t |-> "Pubkey", k |-> k]

TkHash20(h) == [t |-> "Hash20", h |-> h]

TkNum(n) == [t |-> "Num", n |-> n]

\* Terminal::encode of the fragments of the model
Ms_encode(ms) ==
    CASE ms.frag = "pk" -> <<TkPubkey(ms.items[1].id), Tk("CheckSig")>>
      [] ms.frag = "pkh" ->
           <<Tk("Dup"), Tk("Hash160"), TkHash20(ms.items[1].id), Tk("Equal"),
             Tk("Verify"), Tk("CheckSig")>>
      [] ms.frag = "true" -> <<TkNum(1)>>
      [] ms.frag = "false" -> <<TkNum(0)>>
      [] ms.frag = "thresh" ->
           <<TkPubkey(ms.items[1].id), Tk("CheckSig")>>
           \o [j \in 1..(4 * (Len(ms.items) - 1)) |->
                 CASE (j - 1) % 4 = 0 -> Tk("Swap")
                   [] (j - 1) % 4 = 1 -> TkPubkey(ms.items[2 + (j - 1) \div 4].id)
                   [] (j - 1) % 4 = 2 -> Tk("CheckSig")
                   [] OTHER -> Tk("Add")]
           \o <<TkNum(ms.k), Tk("Equal")>>
      [] OTHER ->
           <<TkNum(ms.k)>> \o [i \in 1..Len(ms.items) |-> TkPubkey(ms.items[i].id)]
           \o <<TkNum(Len(ms.items)), Tk("CheckMultiSig")>>

\* CovOperations::post_codesep_script: what follows OP_CODESEPARATOR
post_codesep_script ==
    <<Tk("CheckSig"), Tk("Verify")>> \o [i \in 1..10 |-> Tk("Cat")]
    \o <<Tk("Sha256"), Tk("FromAltStack"), Tk("CheckSigFromStack")>>

\* CovOperations::verify_cov: the covenant preamble for pk, the sequence
\* check_cov_script matches from the end of the script
verify_cov(pk) ==
    <<Tk("Verify"), TkNum(11), Tk("Pick"), Tk("Over"), TkNum(1), Tk("Left"),
      Tk("Cat"), TkPubkey(pk), Tk("Dup"), Tk("ToAltStack"), Tk("CodeSep")>>
    \o post_codesep_script

(***************************************************************************)
(* Satisfier and witness data                                              *)
(***************************************************************************)
\* elements::encode::serialize
serialize(x) == [ser |-> x]

\* Signature::serialize_der
serialize_der(sig) == [der |-> sig]

\* ElementsSig to_vec: the DER signature followed by the sighash byte
sig_to_vec(es) == [der |-> es.sig, hash_ty |-> es.hash_ty]

\* sha256d over the engine's input
sha256d(bytes) == [sha256d |-> bytes]

\* hash256_arr: every element is consensus-encoded into one hash engine
hash256_arr(sl) == sha256d([i \in 1..Len(sl) |-> serialize(sl[i])])

\* The sighash lookups of a Satisfier, in the order satisfy consults them.
SighashItems ==
    <<"nversion", "hashprevouts", "hashsequence", "hashissuances", "outpoint",
      "scriptcode", "value", "nsequence", "outputs", "nlocktime", "sighashu32">>

\* Satisfier::lookup_sig
lookup_sig(s, pk) == s.sigs[pk]

RECURSIVE multi_sigs(_, _, _)
\* the first k signatures available for the keys of a multi()
multi_sigs(s, items, k) ==
    IF k = 0 THEN Ok(<<>>)
    ELSE IF items = <<>> THEN Err(E("CouldNotSatisfy"))
    ELSE LET es == lookup_sig(s, Head(items).id) IN
         IF ~es.some THEN multi_sigs(s, Tail(items), k)
         ELSE LET r == multi_sigs(s, Tail(items), k - 1) IN
              IF ~r.ok THEN r ELSE Ok(<<sig_to_vec(es.v)>> \o r.val)

\* Miniscript::satisfy
Ms_satisfy(ms, s) ==
    CASE ms.frag = "pk" ->
           LET es == lookup_sig(s, ms.items[1].id) IN
           IF es.some THEN Ok(<<sig_to_vec(es.v)>>) ELSE Err(E("CouldNotSatisfy"))
      [] ms.frag = "pkh" ->
           LET es == lookup_sig(s, ms.items[1].id) IN
           IF es.some THEN Ok(<<sig_to_vec(es.v), [key |-> ms.items[1].id]>>)
           ELSE Err(E("CouldNotSatisfy"))
      [] OTHER ->
           LET r == multi_sigs(s, ms.items, ms.k) IN
           IF ~r.ok THEN r ELSE Ok(<<[empty |-> TRUE]>> \o r.val)

(***************************************************************************)
(* CovenantDescriptor (covenants/cov.rs)                                   *)
(***************************************************************************)
\* limits::MAX_OPS_PER_SCRIPT
MAX_OPS_PER_SCRIPT == 201

\* limits::MAX_SCRIPT_SIZE
MAX_SCRIPT_SIZE == 10000

\* the statically computed op count of the covenant preamble
cov_script_ops == 24

free_verify(ms) == IF ms.ext.has_free_verify THEN 1 ELSE 0

\* the same, rejecting a total equal to the ceiling
CovenantDescriptor_new_strict(pk, ms) ==
    IF ~ms.ext.ops_count_sat.some THEN Err(E("ImpossibleSatisfaction"))
    ELSE IF ms.ext.ops_count_sat.v + cov_script_ops - free_verify(ms) >= MAX_OPS_PER_SCRIPT
    THEN Err(E("ImpossibleSatisfaction"))
    ELSE IF Ms_script_size(ms) + (58 - free_verify(ms)) > MAX_SCRIPT_SIZE
    THEN Err(E("ScriptSizeTooLarge"))
    ELSE Ok(CovD(pk, ms))

\* CovenantDescriptor::new.  usize arithmetic: a subtraction below zero
\* panics.
CovenantDescriptor_new(pk, ms) ==
    LET ms_op_count == ms.ext.ops_count_sat IN
    IF ~ms_op_count.some THEN Err(E("ImpossibleSatisfaction"))
    ELSE IF ms_op_count.v + cov_script_ops < free_verify(ms) THEN Err(E("panic"))
    ELSE LET total_ops == ms_op_count.v + cov_script_ops - free_verify(ms)
             ss == 58 - free_verify(ms)
         IN IF total_ops > MAX_OPS_PER_SCRIPT THEN Err(E("ImpossibleSatisfaction"))
            ELSE IF Ms_script_size(ms) + ss > MAX_SCRIPT_SIZE
            THEN Err(E("ScriptSizeTooLarge"))
            ELSE Ok(CovD(pk, ms))

\* CovenantDescriptor::encode
Cov_encode(d) == Ms_encode(d.ms) \o verify_cov(d.pk)

\* the number MissingSighashItem carries for each lookup
MissingItemNo(item) ==
    CASE item = "nversion" -> 1
      [] item = "hashprevouts" -> 1
      [] item = "hashsequence" -> 3
      [] item = "hashissuances" -> 3
      [] item = "outpoint" -> 4
      [] item = "scriptcode" -> 5
      [] item = "value" -> 6
      [] item = "nsequence" -> 7
      [] item = "outputs" -> 8
      [] item = "nlocktime" -> 9
      [] OTHER -> 10

MissingSighashItem(n) == [kind |-> "MissingSighashItem", n |-> n]

\* the covenant items with hashIssuances and outpoint exchanged
CovItems_swapped(s, sig) ==
    <<serialize_der(sig),
      serialize(s.nversion.v),
      serialize(s.hashprevouts.v),
      serialize(s.hashsequence.v),
      serialize(s.outpoint.v),
      serialize(s.hashissuances.v),
      serialize(s.scriptcode.v),
      serialize(s.value.v),
      serialize(s.nsequence.v),
      serialize(hash256_arr(s.outputs.v)),
      serialize(s.nlocktime.v),
      serialize(s.sighashu32.v)>>

\* the 12 covenant items of the witness
CovItems(s, sig) ==
    <<serialize_der(sig),
      serialize(s.nversion.v),
      serialize(s.hashprevouts.v),
      serialize(s.hashsequence.v),
      serialize(s.hashissuances.v),
      serialize(s.outpoint.v),
      serialize(s.scriptcode.v),
      serialize(s.value.v),
      serialize(s.nsequence.v),
      serialize(hash256_arr(s.outputs.v)),
      serialize(s.nlocktime.v),
      serialize(s.sighashu32.v)>>

\* the same, satisfying the inner Miniscript before the covenant checks
CovenantDescriptor_satisfy_ms_first(d, s) ==
    LET ms_wit == Ms_satisfy(d.ms, s)
        absent == {i \in 1..Len(SighashItems) : ~s[SighashItems[i]].some}
    IN IF ~ms_wit.ok THEN ms_wit
       ELSE IF absent # {} THEN Err(MissingSighashItem(MissingItemNo(SighashItems[Min(absent)])))
       ELSE LET es == lookup_sig(s, d.pk) IN
            IF ~es.some THEN Err(E("MissingCovSignature"))
            ELSE IF s.sighashu32.v # es.v.hash_ty
            THEN Err(E("CovenantSighashTypeMismatch"))
            ELSE Ok(CovItems(s, es.v.sig) \o ms_wit.val)

\* CovenantDescriptor::satisfy
CovenantDescriptor_satisfy(d, s) ==
    LET absent == {i \in 1..Len(SighashItems) : ~s[SighashItems[i]].some} IN
    IF absent # {} THEN Err(MissingSighashItem(MissingItemNo(SighashItems[Min(absent)])))
    ELSE LET es == lookup_sig(s, d.pk) IN
         IF ~es.some THEN Err(E("MissingCovSignature"))
         ELSE IF s.sighashu32.v # es.v.hash_ty
         THEN Err(E("CovenantSighashTypeMismatch"))
         ELSE LET ms_wit == Ms_satisfy(d.ms, s) IN
              IF ~ms_wit.ok THEN ms_wit
              ELSE Ok(CovItems(s, es.v.sig) \o ms_wit.val)

\* <CovenantDescriptor as DescriptorTrait>::explicit_script
Cov_explicit_script(d) == Cov_encode(d)

\* <CovenantDescriptor as DescriptorTrait>::get_satisfaction
Cov_get_satisfaction(d, s) ==
    LET witness == CovenantDescriptor_satisfy(d, s) IN
    IF ~witness.ok THEN witness
    ELSE Ok([witness |-> Append(witness.val, [script |-> Cov_explicit_script(d)]),
             script_sig |-> <<>>])

\* <CovenantDescriptor as Display>::fmt
Cov_fmt(d) ==
    with_checksum(ELMTS_STR \o <<"c", "o", "v", "w", "s", "h", "(", d.pk, ",">>
                  \o Ms_fmt(d.ms) \o <<")">>)

\* <CovenantDescriptor as FromTree>::from_tree
Cov_from_tree(top) ==
    IF top.name = <<"e", "l", "c", "o", "v", "w", "s", "h">> /\ Len(top.args) = 2
    THEN LET pk == terminal_key(top.args[1]) IN
         IF ~pk.ok THEN pk
         ELSE LET sub == Ms_from_tree(top.args[2]) IN
              IF ~sub.ok THEN sub
              ELSE LET c == Segwitv0_top_level_checks(sub.val) IN
                   IF ~c.ok THEN c ELSE Ok(CovD(pk.val, sub.val))
    ELSE Err(E("Unexpected"))

\* <CovenantDescriptor as FromStr>::from_str
Cov_from_str(s) ==
    LET desc_str == verify_checksum(s) IN
    IF ~desc_str.ok THEN desc_str
    ELSE LET top == Tree_from_str(desc_str.val) IN
         IF ~top.ok THEN top ELSE Cov_from_tree(top.val)

(***************************************************************************)
(* ForEachKey: the predicate is the set of keys and key hashes it accepts; *)
(* the result records the predicate's calls, in order.                     *)
(***************************************************************************)
RECURSIVE all_items(_, _)
\* Iterator::all over the keys of a fragment: stops at the first rejection
all_items(items, accept) ==
    IF items = <<>> THEN [ret |-> TRUE, calls |-> <<>>]
    ELSE IF Head(items) \notin accept THEN [ret |-> FALSE, calls |-> <<Head(items)>>]
    ELSE LET r == all_items(Tail(items), accept) IN
         [ret |-> r.ret, calls |-> <<Head(items)>> \o r.calls]

\* <Miniscript as ForEachKey>::for_each_key
Ms_for_each_key(ms, accept) == all_items(ms.items, accept)

\* ForEachKey::for_any_key: !self.for_each_key(|key| !pred(key))
Ms_for_any_key(ms, accept) ==
    LET r == Ms_for_each_key(ms, Range(ms.items) \ accept) IN
    [ret |-> ~r.ret, calls |-> r.calls]

\* <Bare as ForEachKey>::for_each_key
Bare_for_each_key(d, accept) == Ms_for_each_key(d.ms, accept)

\* <Pkh as ForEachKey>::for_each_key
Pkh_for_each_key(d, accept) ==
    [ret |-> KeyItem(d.pk) \in accept, calls |-> <<KeyItem(d.pk)>>]

\* <CovenantDescriptor as ForEachKey>::for_each_key
Cov_for_each_key(d, accept) ==
    IF KeyItem(d.pk) \notin accept
    THEN [ret |-> FALSE, calls |-> <<KeyItem(d.pk)>>]
    ELSE LET r == Ms_for_any_key(d.ms, accept) IN
         [ret |-> r.ret, calls |-> <<KeyItem(d.pk)>> \o r.calls]

(***************************************************************************)
(* TranslatePk: a translator is the keys and the key hashes its two maps   *)
(* fail on; the target key type writes keys in lower case.                 *)
(***************************************************************************)
QKey(k) == CASE k = "A" -> "a" [] k = "B" -> "b" [] OTHER -> "c"

TranslateErr(item) == [kind |-> "TranslateError", item |-> item]

\* translatefpk / translatefpkh applied to a key or a key hash
translate_item(item, t) ==
    IF item.kind = "key"
    THEN IF item.id \in t.pk_fail THEN Err(TranslateErr(item))
         ELSE Ok(KeyItem(QKey(item.id)))
    ELSE IF item.id \in t.pkh_fail THEN Err(TranslateErr(item))
         ELSE Ok(HashItem(QKey(item.id)))

RECURSIVE translate_items(_, _)
translate_items(items, t) ==
    IF items = <<>> THEN Ok(<<>>)
    ELSE LET h == translate_item(Head(items), t) IN
         IF ~h.ok THEN h
         ELSE LET r == translate_items(Tail(items), t) IN
              IF ~r.ok THEN r ELSE Ok(<<h.val>> \o r.val)

\* <Miniscript as TranslatePk>::translate_pk: the type and the cached
\* metadata are carried over
Ms_translate_pk(ms, t) ==
    LET r == translate_items(ms.items, t) IN
    IF ~r.ok THEN r ELSE Ok([ms EXCEPT !.items = r.val])

\* <Bare as TranslatePk>::translate_pk
Bare_translate_pk(d, t) ==
    LET ms == Ms_translate_pk(d.ms, t) IN
    IF ~ms.ok THEN ms
    ELSE LET b == Bare_new(ms.val) IN
         IF ~b.ok THEN Err(E("panic")) ELSE Ok(b.val)

\* <Pkh as TranslatePk>::translate_pk
Pkh_translate_pk(d, t) ==
    LET pk == translate_item(KeyItem(d.pk), t) IN
    IF ~pk.ok THEN pk ELSE Ok(Pkh_new(pk.val.id))

\* the same, translating the inner Miniscript before the binding key
Cov_translate_pk_ms_first(d, t) ==
    LET ms == Ms_translate_pk(d.ms, t) IN
    IF ~ms.ok THEN ms
    ELSE LET pk == translate_item(KeyItem(d.pk), t) IN
         IF ~pk.ok THEN pk ELSE Ok(CovD(pk.val.id, ms.val))

\* <CovenantDescriptor as TranslatePk>::translate_pk
Cov_translate_pk(d, t) ==
    LET pk == translate_item(KeyItem(d.pk), t) IN
    IF ~pk.ok THEN pk
    ELSE LET ms == Ms_translate_pk(d.ms, t) IN
         IF ~ms.ok THEN ms ELSE Ok(CovD(pk.val.id, ms.val))

(***************************************************************************)
(* Satisfactions of Bare and Pkh, byte lengths and weights                 *)
(***************************************************************************)
\* script::Builder::push_slice
TkPush(data) == [t |-> "Push", data |-> data]

\* util::witness_to_scriptsig: every witness element becomes one push, the
\* empty element the number 0
witness_to_scriptsig(wit) ==
    [i \in 1..Len(wit) |->
        IF "empty" \in DOMAIN wit[i] THEN TkNum(0) ELSE TkPush(wit[i])]

\* Miniscript::satisfy_malleable: pk, pkh and multi have no other
\* satisfaction than the one satisfy returns
Ms_satisfy_malleable(ms, s) == Ms_satisfy(ms, s)

\* <Bare as DescriptorTrait>::get_satisfaction
Bare_get_satisfaction(d, s) ==
    LET ms == Ms_satisfy(d.ms, s) IN
    IF ~ms.ok THEN ms
    ELSE Ok([witness |-> <<>>, script_sig |-> witness_to_scriptsig(ms.val)])

\* <Bare as DescriptorTrait>::get_satisfaction_mall
Bare_get_satisfaction_mall(d, s) ==
    LET ms == Ms_satisfy_malleable(d.ms, s) IN
    IF ~ms.ok THEN ms
    ELSE Ok([witness |-> <<>>, script_sig |-> witness_to_scriptsig(ms.val)])

MissingSig(pk) == [kind |-> "MissingSig", pk |-> pk]

\* a satisfaction that carries the signature and the key in the witness, as
\* a segwit key spend does
Pkh_get_satisfaction_in_witness(d, s) ==
    LET sig == lookup_sig(s, d.pk) IN
    IF sig.some
    THEN Ok([witness |-> <<sig_to_vec(sig.v), [key |-> d.pk]>>, script_sig |-> <<>>])
    ELSE Err(MissingSig(d.pk))

\* <Pkh as DescriptorTrait>::get_satisfaction
Pkh_get_satisfaction(d, s) ==
    LET sig == lookup_sig(s, d.pk) IN
    IF sig.some
    THEN Ok([witness |-> <<>>,
             script_sig |-> <<TkPush(sig_to_vec(sig.v)), TkPubkey(d.pk)>>])
    ELSE Err(MissingSig(d.pk))

\* <Pkh as DescriptorTrait>::get_satisfaction_mall
Pkh_get_satisfaction_mall(d, s) == Pkh_get_satisfaction(d, s)

\* util::varint_len
varint_len(n) == IF n <= 252 THEN 1 ELSE IF n <= 65535 THEN 3 ELSE 5

RECURSIVE Sum(_)
Sum(ns) == IF ns = <<>> THEN 0 ELSE Head(ns) + Sum(Tail(ns))

\* the bytes of a witness element of a Miniscript satisfaction: a
\* signature with its sighash byte, a serialized key, or nothing
ByteLen(e) ==
    IF "hash_ty" \in DOMAIN e THEN e.der.der_len + 1
    ELSE IF "der" \in DOMAIN e THEN e.der.der_len
    ELSE IF "key" \in DOMAIN e THEN KeyLen(e.key)
    ELSE 0

\* the bytes one token takes in a serialized script; OP_VERIFY after
\* OP_CHECKSIG, OP_CHECKMULTISIG or OP_EQUAL is folded into the opcode
TokenLen(tokens, i) ==
    LET tk == tokens[i] IN
    CASE tk.t = "Pubkey" -> 1 + KeyLen(tk.k)
      [] tk.t = "Hash20" -> 21
      [] tk.t = "Push" -> 1 + ByteLen(tk.data)
      [] tk.t = "Verify" ->
           IF i > 1 /\ tokens[i - 1].t \in {"CheckSig", "CheckMultiSig", "Equal"}
           THEN 0 ELSE 1
      [] OTHER -> 1

\* Script::len
ScriptLen(tokens) == Sum([i \in 1..Len(tokens) |-> TokenLen(tokens, i)])

\* the bytes of a serialized confidential::Value: the prefix alone for
\* Null, the prefix and 8 bytes for an explicit amount, the 33 bytes of a
\* commitment
ValueLen(v) ==
    CASE v.kind = "Null" -> 1
      [] v.kind = "Explicit" -> 9
      [] OTHER -> 33

\* the bytes of the covenant item at position i of the witness (the
\* signature, then items 1 to 10 of the digest, hashIssuances being 3b)
CovItemLen(i, e) ==
    CASE i = 1 -> ByteLen(e)
      [] i \in {2, 9, 11, 12} -> 4
      [] i \in {3, 4, 5, 10} -> 32
      [] i = 6 -> 36
      [] i = 7 -> varint_len(ScriptLen(e.ser)) + ScriptLen(e.ser)
      [] OTHER -> ValueLen(e.ser)

\* the serialized weight of (witness, script_sig): the script_sig with its
\* length four times, the witness count and every element with its length
SpendWeight(script_sig, lens) ==
    4 * (varint_len(ScriptLen(script_sig)) + ScriptLen(script_sig))
    + varint_len(Len(lens))
    + Sum([i \in 1..Len(lens) |-> varint_len(lens[i]) + lens[i]])

\* Miniscript::max_satisfaction_size
Ms_max_satisfaction_size(ms) ==
    CASE ms.frag = "pk" -> Ok(73)
      [] ms.frag = "pkh" -> Ok(34 + 73)
      [] ms.frag = "multi" -> Ok(1 + 73 * ms.k)
      [] OTHER -> Err(E("ImpossibleSatisfaction"))

\* Miniscript::max_satisfaction_witness_elements
Ms_max_satisfaction_witness_elements(ms) ==
    CASE ms.frag = "pk" -> Ok(1)
      [] ms.frag = "pkh" -> Ok(2)
      [] ms.frag = "multi" -> Ok(1 + ms.k)
      [] OTHER -> Err(E("ImpossibleSatisfaction"))

\* BareCtx::pk_len: the key and its push opcode
pk_len(pk) == 1 + KeyLen(pk)

\* <Bare as DescriptorTrait>::max_satisfaction_weight
Bare_max_satisfaction_weight(d) ==
    LET scriptsig_len == Ms_max_satisfaction_size(d.ms) IN
    IF ~scriptsig_len.ok THEN scriptsig_len
    ELSE Ok(4 * (varint_len(scriptsig_len.val) + scriptsig_len.val))

\* <Pkh as DescriptorTrait>::max_satisfaction_weight
Pkh_max_satisfaction_weight(d) == Ok(4 * (1 + 73 + pk_len(d.pk)))

\* <CovenantDescriptor as DescriptorTrait>::max_satisfaction_weight
Cov_max_satisfaction_weight(d) ==
    LET script_size == Ms_script_size(d.ms) + 58 - free_verify(d.ms)
        elems == Ms_max_satisfaction_witness_elements(d.ms)
        size == Ms_max_satisfaction_size(d.ms)
    IN IF ~elems.ok THEN elems
       ELSE IF ~size.ok THEN size
       ELSE LET max_sat_elems == elems.val + 12
                max_sat_size == size.val + 275
            IN Ok(4 + varint_len(script_size) + script_size
                  + varint_len(max_sat_elems) + max_sat_size)

(***************************************************************************)
(* Scripts and addresses of the descriptors, and the dispatcher            *)
(***************************************************************************)
\* Script::new_p2pkh, for the hash of the key pk
new_p2pkh(pk) ==
    <<Tk("Dup"), Tk("Hash160"), TkHash20(pk), Tk("Equal"), Tk("Verify"), Tk("CheckSig")>>

\* elements::Address::p2pkh
Address_p2pkh(pk, blinder, params) ==
    [payload |-> new_p2pkh(pk), blinder |-> blinder, params |-> params]

\* Bare::spk, and inner_script and ecdsa_sighash_script_code, which call it
Bare_spk(d) == Ms_encode(d.ms)

\* Pkh::spk, and inner_script and ecdsa_sighash_script_code, which call it
Pkh_spk(d) == new_p2pkh(d.pk)

\* <Bare as ElementsTrait>::blind_addr
Bare_blind_addr(d, blinder, params) == Err(E("BareDescriptorAddr"))

\* an address for a Bare descriptor: the script itself as the payload
Bare_address_of_script(d, params) ==
    Ok([payload |-> Bare_spk(d), blinder |-> None, params |-> params])

\* <Bare as DescriptorTrait>::address
Bare_address(d, params) == Err(E("BareDescriptorAddr"))

\* <Bare as DescriptorTrait>::explicit_script
Bare_explicit_script(d) == Ok(Bare_spk(d))

\* <Bare as DescriptorTrait>::script_code
Bare_script_code(d) == Ok(Bare_spk(d))

\* <Pkh as ElementsTrait>::blind_addr
Pkh_blind_addr(d, blinder, params) == Ok(Address_p2pkh(d.pk, blinder, params))

\* <Pkh as DescriptorTrait>::address
Pkh_address(d, params) == Ok(Address_p2pkh(d.pk, None, params))

\* <Pkh as DescriptorTrait>::explicit_script
Pkh_explicit_script(d) == Ok(Pkh_spk(d))

\* <Pkh as DescriptorTrait>::script_code
Pkh_script_code(d) == Ok(Pkh_spk(d))

\* a push of the SHA256 of a script
TkHash32(script) == [t |-> "Hash32", h |-> script]

\* Script::new_v0_wpkh, for the hash of the key pk
new_v0_wpkh(pk) == <<TkNum(0), TkHash20(pk)>>

\* Script::new_v0_wsh, for the SHA256 of the script
new_v0_wsh(script) == <<TkNum(0), TkHash32(script)>>

\* Script::new_p2sh, for the HASH160 of the bytes
new_p2sh(bytes) == <<Tk("Hash160"), TkHash20(bytes), Tk("Equal")>>

\* elements::Address::p2wpkh, ::p2wsh and ::p2sh
Address_p2wpkh(pk, blinder, params) ==
    [payload |-> new_v0_wpkh(pk), blinder |-> blinder, params |-> params]

Address_p2wsh(script, blinder, params) ==
    [payload |-> new_v0_wsh(script), blinder |-> blinder, params |-> params]

Address_p2sh(script, blinder, params) ==
    [payload |-> new_p2sh(script), blinder |-> blinder, params |-> params]

\* util::push_opcode_size: the bytes of the opcode that pushes a script
push_opcode_size(script_size) ==
    IF script_size < 76 THEN 1
    ELSE IF script_size < 256 THEN 2
    ELSE IF script_size < 65536 THEN 3
    ELSE 5

(***************************************************************************)
(* Wpkh and Wsh (descriptor/segwitv0.rs) and Sh over a Miniscript          *)
(* (descriptor/sh.rs): the methods the dispatcher forwards to.             *)
(***************************************************************************)
\* <Wpkh as ElementsTrait>::blind_addr
Wpkh_blind_addr(d, blinder, params) == Ok(Address_p2wpkh(d.pk, blinder, params))

\* <Wpkh as DescriptorTrait>::address
Wpkh_address(d, params) == Ok(Address_p2wpkh(d.pk, None, params))

\* <Wpkh as DescriptorTrait>::explicit_script: the scriptPubkey
Wpkh_explicit_script(d) == Ok(new_v0_wpkh(d.pk))

\* <Wpkh as DescriptorTrait>::script_code: the p2pkh script of the key
Wpkh_script_code(d) == Ok(new_p2pkh(d.pk))

\* <Wpkh as DescriptorTrait>::get_satisfaction: the signature and the key
\* in the witness, an empty script_sig
Wpkh_get_satisfaction(d, s) ==
    LET sig == lookup_sig(s, d.pk) IN
    IF sig.some
    THEN Ok([witness |-> <<sig_to_vec(sig.v), [key |-> d.pk]>>, script_sig |-> <<>>])
    ELSE Err(MissingSig(d.pk))

\* <Wpkh as DescriptorTrait>::get_satisfaction_mall
Wpkh_get_satisfaction_mall(d, s) == Wpkh_get_satisfaction(d, s)

\* <Wpkh as DescriptorTrait>::max_satisfaction_weight
Wpkh_max_satisfaction_weight(d) == Ok(4 + 1 + 73 + pk_len(d.pk))

\* <Wsh as ElementsTrait>::blind_addr
Wsh_blind_addr(d, blinder, params) == Ok(Address_p2wsh(Ms_encode(d.ms), blinder, params))

\* <Wsh as DescriptorTrait>::address
Wsh_address(d, params) == Ok(Address_p2wsh(Ms_encode(d.ms), None, params))

\* <Wsh as DescriptorTrait>::explicit_script: the witness script
Wsh_explicit_script(d) == Ok(Ms_encode(d.ms))

\* <Wsh as DescriptorTrait>::script_code
Wsh_script_code(d) == Ok(Ms_encode(d.ms))

\* <Wsh as DescriptorTrait>::get_satisfaction: the satisfaction of the
\* Miniscript and then the witness script, an empty script_sig
Wsh_get_satisfaction(d, s) ==
    LET ms == Ms_satisfy(d.ms, s) IN
    IF ~ms.ok THEN ms
    ELSE Ok([witness |-> Append(ms.val, [script |-> Ms_encode(d.ms)]),
             script_sig |-> <<>>])

\* <Wsh as DescriptorTrait>::get_satisfaction_mall
Wsh_get_satisfaction_mall(d, s) ==
    LET ms == Ms_satisfy_malleable(d.ms, s) IN
    IF ~ms.ok THEN ms
    ELSE Ok([witness |-> Append(ms.val, [script |-> Ms_encode(d.ms)]),
             script_sig |-> <<>>])

\* <Wsh as DescriptorTrait>::max_satisfaction_weight
Wsh_max_satisfaction_weight(d) ==
    LET script_size == Ms_script_size(d.ms)
        elems == Ms_max_satisfaction_witness_elements(d.ms)
        size == Ms_max_satisfaction_size(d.ms)
    IN IF ~elems.ok THEN elems
       ELSE IF ~size.ok THEN size
       ELSE Ok(4 + varint_len(script_size) + script_size
               + varint_len(elems.val) + size.val)

\* <Sh as ElementsTrait>::blind_addr
Sh_blind_addr(d, blinder, params) == Ok(Address_p2sh(Ms_encode(d.ms), blinder, params))

\* <Sh as DescriptorTrait>::address
Sh_address(d, params) == Ok(Address_p2sh(Ms_encode(d.ms), None, params))

\* <Sh as DescriptorTrait>::explicit_script: the redeem script
Sh_explicit_script(d) == Ok(Ms_encode(d.ms))

\* <Sh as DescriptorTrait>::script_code
Sh_script_code(d) == Ok(Ms_encode(d.ms))

\* <Sh as DescriptorTrait>::get_satisfaction: the satisfaction of the
\* Miniscript and then the redeem script, all pushed in the script_sig
Sh_get_satisfaction(d, s) ==
    LET ms == Ms_satisfy(d.ms, s) IN
    IF ~ms.ok THEN ms
    ELSE Ok([witness |-> <<>>,
             script_sig |-> witness_to_scriptsig(
                                Append(ms.val, [script |-> Ms_encode(d.ms)]))])

\* <Sh as DescriptorTrait>::get_satisfaction_mall
Sh_get_satisfaction_mall(d, s) ==
    LET ms == Ms_satisfy_malleable(d.ms, s) IN
    IF ~ms.ok THEN ms
    ELSE Ok([witness |-> <<>>,
             script_sig |-> witness_to_scriptsig(
                                Append(ms.val, [script |-> Ms_encode(d.ms)]))])

\* <Sh as DescriptorTrait>::max_satisfaction_weight
Sh_max_satisfaction_weight(d) ==
    LET ss == Ms_script_size(d.ms)
        size == Ms_max_satisfaction_size(d.ms)
    IN IF ~size.ok THEN size
       ELSE LET scriptsig_len == push_opcode_size(ss) + ss + size.val
            IN Ok(4 * (varint_len(scriptsig_len) + scriptsig_len))

(***************************************************************************)
(* PreTaprootDescriptor (pretaproot.rs): every method matches on the       *)
(* variant and calls the same method of the wrapped descriptor.            *)
(***************************************************************************)
\* <PreTaprootDescriptor as ElementsTrait>::blind_addr
PreTaproot_blind_addr(d, blinder, params) ==
    CASE d.inner.variant = "Bare" -> Bare_blind_addr(d.inner, blinder, params)
      [] d.inner.variant = "Pkh" -> Pkh_blind_addr(d.inner, blinder, params)
      [] d.inner.variant = "Wpkh" -> Wpkh_blind_addr(d.inner, blinder, params)
      [] d.inner.variant = "Sh" -> Sh_blind_addr(d.inner, blinder, params)
      [] d.inner.variant = "Wsh" -> Wsh_blind_addr(d.inner, blinder, params)

\* <PreTaprootDescriptor as DescriptorTrait>::address
PreTaproot_address(d, params) ==
    CASE d.inner.variant = "Bare" -> Bare_address(d.inner, params)
      [] d.inner.variant = "Pkh" -> Pkh_address(d.inner, params)
      [] d.inner.variant = "Wpkh" -> Wpkh_address(d.inner, params)
      [] d.inner.variant = "Wsh" -> Wsh_address(d.inner, params)
      [] d.inner.variant = "Sh" -> Sh_address(d.inner, params)

\* <PreTaprootDescriptor as DescriptorTrait>::explicit_script
PreTaproot_explicit_script(d) ==
    CASE d.inner.variant = "Bare" -> Bare_explicit_script(d.inner)
      [] d.inner.variant = "Pkh" -> Pkh_explicit_script(d.inner)
      [] d.inner.variant = "Wpkh" -> Wpkh_explicit_script(d.inner)
      [] d.inner.variant = "Wsh" -> Wsh_explicit_script(d.inner)
      [] d.inner.variant = "Sh" -> Sh_explicit_script(d.inner)

\* <PreTaprootDescriptor as DescriptorTrait>::script_code
PreTaproot_script_code(d) ==
    CASE d.inner.variant = "Bare" -> Bare_script_code(d.inner)
      [] d.inner.variant = "Pkh" -> Pkh_script_code(d.inner)
      [] d.inner.variant = "Wpkh" -> Wpkh_script_code(d.inner)
      [] d.inner.variant = "Wsh" -> Wsh_script_code(d.inner)
      [] d.inner.variant = "Sh" -> Sh_script_code(d.inner)

\* <PreTaprootDescriptor as DescriptorTrait>::get_satisfaction
PreTaproot_get_satisfaction(d, s) ==
    CASE d.inner.variant = "Bare" -> Bare_get_satisfaction(d.inner, s)
      [] d.inner.variant = "Pkh" -> Pkh_get_satisfaction(d.inner, s)
      [] d.inner.variant = "Wpkh" -> Wpkh_get_satisfaction(d.inner, s)
      [] d.inner.variant = "Wsh" -> Wsh_get_satisfaction(d.inner, s)
      [] d.inner.variant = "Sh" -> Sh_get_satisfaction(d.inner, s)

\* <PreTaprootDescriptor as DescriptorTrait>::get_satisfaction_mall
PreTaproot_get_satisfaction_mall(d, s) ==
    CASE d.inner.variant = "Bare" -> Bare_get_satisfaction_mall(d.inner, s)
      [] d.inner.variant = "Pkh" -> Pkh_get_satisfaction_mall(d.inner, s)
      [] d.inner.variant = "Wpkh" -> Wpkh_get_satisfaction_mall(d.inner, s)
      [] d.inner.variant = "Wsh" -> Wsh_get_satisfaction_mall(d.inner, s)
      [] d.inner.variant = "Sh" -> Sh_get_satisfaction_mall(d.inner, s)

\* <PreTaprootDescriptor as DescriptorTrait>::max_satisfaction_weight
PreTaproot_max_satisfaction_weight(d) ==
    CASE d.inner.variant = "Bare" -> Bare_max_satisfaction_weight(d.inner)
      [] d.inner.variant = "Pkh" -> Pkh_max_satisfaction_weight(d.inner)
      [] d.inner.variant = "Wpkh" -> Wpkh_max_satisfaction_weight(d.inner)
      [] d.inner.variant = "Wsh" -> Wsh_max_satisfaction_weight(d.inner)
      [] d.inner.variant = "Sh" -> Sh_max_satisfaction_weight(d.inner)

\* PreTaprootDescriptorTrait::explicit_script: expect on the fallible one
PreTaprootTrait_explicit_script(d) ==
    LET r == PreTaproot_explicit_script(d) IN
    IF r.ok THEN r ELSE Err(E("panic"))

\* PreTaprootDescriptorTrait::script_code: expect on the fallible one
PreTaprootTrait_script_code(d) ==
    LET r == PreTaproot_script_code(d) IN
    IF r.ok THEN r ELSE Err(E("panic"))

\* a script_code that hands out the script code of the covenant key
Cov_script_code_post_codesep(d) == post_codesep_script

\* <CovenantDescriptor as DescriptorTrait>::script_code
Cov_script_code(d) == Cov_explicit_script(d)

\* CovenantDescriptor::cov_script_code
Cov_cov_script_code(d) == post_codesep_script

(***************************************************************************)
(* Interpreter: classification of a spend (interpreter/inner.rs)           *)
(***************************************************************************)
\* The byte strings bitcoin::PublicKey::from_slice accepts: the compressed
\* keys and one uncompressed key; every other string is not a key.
ValidKeys == Keys \cup {"U"}

\* Terminal::True and Terminal::False
MsTrue == Ms("true", 0, <<>>)

MsFalse == Ms("false", 0, <<>>)

\* a push of the 32 bytes of an x-only key
TkXOnly(k) == [t |-> "XOnly", k |-> k]

\* Script::new_p2pk
new_p2pk(k) == <<TkPubkey(k), Tk("CheckSig")>>

\* a witness v1 program of 32 bytes
new_v1_p2tr(k) == <<TkNum(1), TkXOnly(k)>>

\* Script::is_p2pk
is_p2pk(spk) == Len(spk) = 2 /\ spk[1].t = "Pubkey" /\ spk[2].t = "CheckSig"

\* Script::is_p2pkh
is_p2pkh(spk) ==
    /\ Len(spk) = 6
    /\ [i \in 1..6 |-> spk[i].t] = <<"Dup", "Hash160", "Hash20", "Equal", "Verify", "CheckSig">>

\* Script::is_v0_p2wpkh
is_v0_p2wpkh(spk) == Len(spk) = 2 /\ spk[1] = TkNum(0) /\ spk[2].t = "Hash20"

\* Script::is_v0_p2wsh
is_v0_p2wsh(spk) == Len(spk) = 2 /\ spk[1] = TkNum(0) /\ spk[2].t = "Hash32"

\* util::is_v1_p2tr
is_v1_p2tr(spk) == Len(spk) = 2 /\ spk[1] = TkNum(1) /\ spk[2].t = "XOnly"

\* Script::is_p2sh
is_p2sh(spk) ==
    Len(spk) = 3 /\ [i \in 1..3 |-> spk[i].t] = <<"Hash160", "Hash20", "Equal">>

\* stack::Element: Push(bytes) unless the bytes are empty (Dissatisfied) or
\* the single byte 1 (Satisfied)
IsPush(elem) == "empty" \notin DOMAIN elem /\ "one" \notin DOMAIN elem

\* stack::Element::from_instruction
Element_from_instruction(tk) ==
    CASE tk.t = "Push" -> Ok(tk.data)
      [] tk.t = "Pubkey" -> Ok([key |-> tk.k])
      [] tk = TkNum(0) -> Ok([empty |-> TRUE])
      [] tk = TkNum(1) -> Ok([one |-> TRUE])
      [] OTHER -> Err(E("ExpectedPush"))

\* pk_from_slice
pk_from_slice(slice, require_compressed) ==
    IF "key" \in DOMAIN slice /\ slice.key \in ValidKeys
    THEN IF require_compressed /\ slice.key = "U"
         THEN Err(E("UncompressedPubkey"))
         ELSE Ok(slice.key)
    ELSE Err(E("PubkeyParseError"))

\* pk_from_stack_elem
pk_from_stack_elem(elem, require_compressed) ==
    IF IsPush(elem) THEN pk_from_slice(elem, require_compressed)
    ELSE Err(E("PubkeyParseError"))

\* ExtData::cast_verify and the size of v:X: VERIFY costs one opcode and
\* one byte unless it merges with the last opcode of X
cast_verify(ms) ==
    LET d == IF ms.ext.has_free_verify THEN 0 ELSE 1 IN
    MsOpaque(IF ms.ext.ops_count_sat.some THEN Some(ms.ext.ops_count_sat.v + d)
             ELSE None,
             FALSE, Ms_script_size(ms) + d)

\* ExtData::and_v and the size of and_v(X, Y)
and_v(x, y) ==
    MsOpaque(IF x.ext.ops_count_sat.some /\ y.ext.ops_count_sat.some
             THEN Some(x.ext.ops_count_sat.v + y.ext.ops_count_sat.v)
             ELSE None,
             y.ext.has_free_verify, Ms_script_size(x) + Ms_script_size(y))

\* the result of reading one expression: the fragment, its base type and
\* the index of its first token
Decoded(ms, base, from) == Ok([ms |-> ms, base |-> base, from |-> from])

\* the token at index i is a key the context reads: only Tap reads x-only
\* keys, and only Segwitv0 and Tap refuse uncompressed keys
\* (check_global_validity)
decode_key(ctx, script, i) ==
    /\ i >= 1
    /\ script[i].t = (IF ctx = "Tap" THEN "XOnly" ELSE "Pubkey")
    /\ IF ctx \in {"Segwitv0", "Tap"} THEN script[i].k \in Keys
       ELSE script[i].k \in ValidKeys

\* decode::parse, NonTerm::Expression on a key push or on
\* DUP HASH160 <H> EQUALVERIFY: the expressions of base type K, pk_k(K) and
\* pk_h(H), read from the end of script[1..n]
decode_K(ctx, script, n) ==
    IF n < 1 THEN Err(E("Miniscript"))
    ELSE IF decode_key(ctx, script, n)
    THEN Decoded(Ms("pk_k", 0, <<KeyItem(script[n].k)>>), "K", n)
    ELSE IF /\ n >= 5 /\ script[n].t = "Verify" /\ script[n - 1].t = "Equal"
            /\ script[n - 2].t = "Hash20" /\ script[n - 3].t = "Hash160"
            /\ script[n - 4].t = "Dup"
    THEN Decoded(Ms("pk_h", 0, <<HashItem(script[n - 2].h)>>), "K", n - 4)
    ELSE Err(E("Miniscript"))

\* NonTerm::Check: c:X over the K expression c, which makes pk(K) of
\* pk_k(K) and pkh(H) of pk_h(H)
reduce_check(c) ==
    IF ~c.ok THEN c
    ELSE Decoded(Ms(IF c.val.ms.frag = "pk_k" THEN "pk" ELSE "pkh", 0, c.val.ms.items),
                 "B", c.val.from)

\* NonTerm::Verify: v:X over the B expression c
reduce_verify(c) ==
    IF ~c.ok THEN c ELSE Decoded(cast_verify(c.val.ms), "V", c.val.from)

\* decode::parse, NonTerm::Expression on 0, 1, CHECKSIG, CHECKMULTISIG or
\* EQUAL: the expressions of base type B, read from the end of script[1..n]
decode_B(ctx, script, n) ==
    LET bad == Err(E("Miniscript")) IN
    IF n < 1 THEN bad
    ELSE LET tk == script[n] IN
    CASE tk.t = "Num" ->
           IF tk.n = 1 THEN Decoded(MsTrue, "B", n)
           ELSE IF tk.n = 0 THEN Decoded(MsFalse, "B", n)
           ELSE bad
      \* c:X over a K
      [] tk.t = "CheckSig" -> reduce_check(decode_K(ctx, script, n - 1))
      \* k <K1> ... <Kn> n CHECKMULTISIG, which Tap refuses
      [] tk.t = "CheckMultiSig" ->
           IF ctx = "Tap" \/ n < 2 \/ script[n - 1].t # "Num" THEN bad
           ELSE LET cnt == script[n - 1].n
                    f == n - 2 - cnt
                IN IF /\ cnt >= 1 /\ f >= 1
                      /\ \A i \in (f + 1)..(n - 2) : decode_key(ctx, script, i)
                      /\ script[f].t = "Num"
                      /\ script[f].n >= 1 /\ script[f].n <= cnt
                   THEN Decoded(MsMulti(script[f].n,
                                        [i \in 1..cnt |-> script[f + i].k]), "B", f)
                   ELSE bad
      \* <K1> CHECKSIG (SWAP <Ki> CHECKSIG ADD)* k EQUAL: after k, each ADD
      \* announces one more s:pk(Ki); the expression before the first of
      \* them is pk(K1)
      [] tk.t = "Equal" ->
           IF n < 2 \/ script[n - 1].t # "Num" THEN bad
           ELSE LET g == Cardinality(
                           {i \in 1..(n \div 4) :
                              \A j \in 1..i : /\ n - 2 - 4 * (j - 1) >= 1
                                              /\ script[n - 2 - 4 * (j - 1)].t = "Add"})
                    f == n - 3 - 4 * g
                IN IF /\ \A i \in 1..g :
                            /\ n - 2 - 4 * (i - 1) >= 4
                            /\ script[n - 3 - 4 * (i - 1)].t = "CheckSig"
                            /\ decode_key(ctx, script, n - 4 - 4 * (i - 1))
                            /\ script[n - 5 - 4 * (i - 1)].t = "Swap"
                      /\ f >= 1 /\ script[f + 1].t = "CheckSig"
                      /\ decode_key(ctx, script, f)
                      /\ script[n - 1].n >= 1 /\ script[n - 1].n <= g + 1
                   THEN Decoded(Ms("thresh", script[n - 1].n,
                                   [i \in 1..(g + 1) |->
                                      KeyItem(IF i = 1 THEN script[f].k
                                              ELSE script[f + 4 * (i - 1) - 1].k)]),
                                "B", f)
                   ELSE bad
      [] OTHER -> bad

\* decode::parse, NonTerm::Expression: one expression is read from the end
\* of script[1..n].  A VERIFY that closes no key hash is v:X over a B.
decode_expr(ctx, script, n) ==
    IF n < 1 THEN Err(E("Miniscript"))
    ELSE IF script[n].t = "Verify"
            /\ ~(n >= 3 /\ script[n - 1].t = "Equal" /\ script[n - 2].t = "Hash20")
    THEN reduce_verify(decode_B(ctx, script, n - 1))
    ELSE IF script[n].t \in {"Verify", "Pubkey", "XOnly"} THEN decode_K(ctx, script, n)
    ELSE decode_B(ctx, script, n)

\* NonTerm::AndV: and_v(X, Y), whose left side x is a V
reduce_and_v(x, y) ==
    IF ~x.ok THEN x
    ELSE IF x.val.base # "V" THEN Err(E("Miniscript"))
    ELSE Decoded(and_v(x.val.ms, y.val.ms), y.val.base, x.val.from)

RECURSIVE decode_and_v(_, _, _)
\* decode::parse, NonTerm::MaybeAndV: unless the token before the
\* expression y is IF, NOTIF, ELSE, TOALTSTACK or SWAP, the expression
\* before y is read and joined to it by and_v
decode_and_v(ctx, script, y) ==
    IF ~y.ok THEN y
    ELSE IF \/ y.val.from = 1
            \/ script[y.val.from - 1].t \in {"If", "NotIf", "Else", "ToAltStack", "Swap"}
    THEN y
    ELSE decode_and_v(ctx, script,
                      reduce_and_v(decode_expr(ctx, script, y.val.from - 1), y))

\* decode::parse followed by check_global_validity: the expression at the
\* end of the script, its base type and the index of its first token; the
\* tokens before that index are left unread
decode_parse(ctx, script) ==
    decode_and_v(ctx, script, decode_expr(ctx, script, Len(script)))

\* the end of Miniscript::parse_insane: the parsed expression d is a B
\* (NonTopLevel otherwise) and no token is left (Trailing otherwise); the
\* interpreter wraps each of these errors as Error::Miniscript
whole_script(d) ==
    IF ~d.ok THEN d
    ELSE IF d.val.base # "B" \/ d.val.from > 1 THEN Err(E("Miniscript"))
    ELSE Ok(d.val.ms)

\* Miniscript::parse_insane under the context ctx
Ms_parse_insane(ctx, script) == whole_script(decode_parse(ctx, script))

\* Miniscript::encode of a fragment over x-only keys
Ms_encode_xonly(ms) ==
    IF ms.frag = "pk" THEN <<TkXOnly(ms.items[1].id), Tk("CheckSig")>> ELSE Ms_encode(ms)

\* script_from_stack_elem
script_from_stack_elem(ctx, elem) ==
    IF "one" \in DOMAIN elem THEN Ok(MsTrue)
    ELSE IF "empty" \in DOMAIN elem THEN Ok(MsFalse)
    ELSE IF "script" \in DOMAIN elem THEN Ms_parse_insane(ctx, elem.script)
    ELSE Err(E("Miniscript"))

\* CovenantDescriptor::check_cov_script: match_token! reads the tokens from
\* the end of the script against the covenant preamble.  A wrong last token
\* takes the catch-all arm (BadCovDescriptor), a wrong token further in is
\* Unexpected, and running out of tokens is UnexpectedStart.  The result is
\* the key and the number of tokens read.
check_cov_script(script) ==
    LET n == Len(script)
        pat == verify_cov("A")
        m == Len(pat)
        \* the j-th token from the end against the j-th pattern from the end
        matches(j) ==
            LET tk == script[n - j + 1]
                want == pat[m - j + 1]
            IN IF want.t = "Pubkey" THEN tk.t = "Pubkey" ELSE tk = want
        bad == {j \in 1..m : j > n \/ ~matches(j)}
    IN IF bad = {} THEN Ok([pk |-> script[n - m + 8].k, read |-> m])
       ELSE LET j == Min(bad) IN
            IF j > n THEN Err(E("UnexpectedStart"))
            ELSE IF j = 1 THEN Err(E("BadCovDescriptor"))
            ELSE Err(E("Unexpected"))

\* CovenantDescriptor::parse_cov_components: lex, where a 33- or 65-byte
\* push that is no public key is an error, then check_cov_script, then
\* decode::parse of the rest, which is a B (NonTopLevel otherwise) and
\* leaves no token unread (Trailing otherwise)
parse_cov_components(script) ==
    IF \E i \in 1..Len(script) : script[i].t = "Pubkey" /\ script[i].k \notin ValidKeys
    THEN Err(E("Miniscript"))
    ELSE LET c == check_cov_script(script) IN
         IF ~c.ok THEN c
         ELSE LET ms == decode_parse("Segwitv0",
                                     SubSeq(script, 1, Len(script) - c.val.read))
              IN IF ~ms.ok THEN ms
                 ELSE IF ms.val.base # "B" THEN Err(E("NonTopLevel"))
                 ELSE IF ms.val.from > 1 THEN Err(E("Trailing"))
                 ELSE Ok([pk |-> c.val.pk, ms |-> ms.val.ms])

\* CovenantDescriptor::parse_insane
Cov_parse_insane(script) ==
    LET c == parse_cov_components(script) IN
    IF ~c.ok THEN c ELSE CovenantDescriptor_new(c.val.pk, c.val.ms)

\* <CovenantDescriptor as DescriptorTrait>::script_pubkey
Cov_script_pubkey(d) == new_v0_wsh(Cov_explicit_script(d))

\* super::BitcoinKey::Fullkey and ::XOnlyPublicKey
BitcoinKey(form, k) == [form |-> form, k |-> k]

\* a conversion that tags every key as a full key, whatever the context
to_no_checks_ms_full(ms, form) ==
    [ms EXCEPT !.items = [i \in 1..Len(ms.items) |->
                            [kind |-> ms.items[i].kind, id |-> ms.items[i].id,
                             form |-> "Fullkey"]]]

\* ToNoChecks::to_no_checks_ms: every key becomes a BitcoinKey and every
\* key hash a TypedHash160 of the same form
to_no_checks_ms(ms, form) ==
    [ms EXCEPT !.items = [i \in 1..Len(ms.items) |->
                            [kind |-> ms.items[i].kind, id |-> ms.items[i].id,
                             form |-> form]]]

\* cov_components_from_stackelem
cov_components_from_stackelem(elem) ==
    IF IsPush(elem) /\ "script" \in DOMAIN elem
    THEN LET r == parse_cov_components(elem.script) IN
         IF r.ok
         THEN Some([pk |-> BitcoinKey("Fullkey", r.val.pk),
                    ms |-> to_no_checks_ms(r.val.ms, "Fullkey")])
         ELSE None
    ELSE None

\* Stack::pop and the stack it leaves; the top is the last element
Top(st) == st[Len(st)]

Popped(st) == SubSeq(st, 1, Len(st) - 1)

\* the script_sig as a stack: Element::from_instruction of every
\* instruction, the first error returned
ssig_stack_of(script_sig) ==
    LET bad == {i \in 1..Len(script_sig) : ~Element_from_instruction(script_sig[i]).ok} IN
    IF bad # {} THEN Element_from_instruction(script_sig[Min(bad)])
    ELSE Ok([i \in 1..Len(script_sig) |-> Element_from_instruction(script_sig[i]).val])

\* Inner::PublicKey, Inner::Script, Inner::CovScript
InnerPublicKey(key, ty) == [inner |-> "PublicKey", key |-> key, ty |-> ty]

InnerScript(ms, ty) == [inner |-> "Script", ms |-> ms, ty |-> ty]

InnerCovScript(key, ms) == [inner |-> "CovScript", key |-> key, ms |-> ms]

\* the triple from_txdata returns
Classified(inner, stack, script_code) ==
    Ok([inner |-> inner, stack |-> stack, script_code |-> script_code])

\* ControlBlock::from_slice
ControlBlock_from_slice(bytes) ==
    IF "ctrl" \in DOMAIN bytes THEN Ok(bytes.ctrl)
    \* the 33 or 65 bytes of a public key have the length of a control block
    \* (33 + 32m), a first byte that is a leaf version and an x-only key
    \* after it: they read
    \* as a control block that commits no script of the model to any of its keys
    ELSE IF "key" \in DOMAIN bytes /\ bytes.key \in ValidKeys
    THEN Ok([key |-> "none", leaf |-> <<>>])
    ELSE Err(E("ControlBlockParse"))

\* ControlBlock::verify_taproot_commitment
verify_taproot_commitment(ctrl_blk, output_key, tap_script) ==
    ctrl_blk.key = output_key /\ ctrl_blk.leaf = tap_script

\* pay to pubkey that asks for a compressed key, as the segwit shapes do
from_txdata_p2pk_compressed(spk, ssig_stack, wit_stack) ==
    IF wit_stack # <<>> THEN Err(E("NonEmptyWitness"))
    ELSE LET pk == pk_from_slice([key |-> spk[1].k], TRUE) IN
         IF ~pk.ok THEN pk
         ELSE Classified(InnerPublicKey(BitcoinKey("Fullkey", pk.val), "Pk"),
                         ssig_stack, Some(spk))

\* from_txdata, pay to pubkey
from_txdata_p2pk(spk, ssig_stack, wit_stack) ==
    IF wit_stack # <<>> THEN Err(E("NonEmptyWitness"))
    ELSE LET pk == pk_from_slice([key |-> spk[1].k], FALSE) IN
         IF ~pk.ok THEN pk
         ELSE Classified(InnerPublicKey(BitcoinKey("Fullkey", pk.val), "Pk"),
                         ssig_stack, Some(spk))

\* pay to pubkeyhash that pops before it looks at the witness
from_txdata_p2pkh_pop_first(spk, ssig_stack, wit_stack) ==
    IF ssig_stack = <<>> THEN Err(E("UnexpectedStackEnd"))
    ELSE IF wit_stack # <<>> THEN Err(E("NonEmptyWitness"))
    ELSE LET pk == pk_from_stack_elem(Top(ssig_stack), FALSE) IN
         IF ~pk.ok THEN pk
         ELSE IF spk = new_p2pkh(pk.val)
         THEN Classified(InnerPublicKey(BitcoinKey("Fullkey", pk.val), "Pkh"),
                         Popped(ssig_stack), Some(spk))
         ELSE Err(E("IncorrectPubkeyHash"))

\* pay to pubkeyhash that reads the key without popping it
from_txdata_p2pkh_peek(spk, ssig_stack, wit_stack) ==
    IF wit_stack # <<>> THEN Err(E("NonEmptyWitness"))
    ELSE IF ssig_stack = <<>> THEN Err(E("UnexpectedStackEnd"))
    ELSE LET pk == pk_from_stack_elem(Top(ssig_stack), FALSE) IN
         IF ~pk.ok THEN pk
         ELSE IF spk = new_p2pkh(pk.val)
         THEN Classified(InnerPublicKey(BitcoinKey("Fullkey", pk.val), "Pkh"),
                         ssig_stack, Some(spk))
         ELSE Err(E("IncorrectPubkeyHash"))

\* from_txdata, pay to pubkeyhash
from_txdata_p2pkh(spk, ssig_stack, wit_stack) ==
    IF wit_stack # <<>> THEN Err(E("NonEmptyWitness"))
    ELSE IF ssig_stack = <<>> THEN Err(E("UnexpectedStackEnd"))
    ELSE LET pk == pk_from_stack_elem(Top(ssig_stack), FALSE) IN
         IF ~pk.ok THEN pk
         ELSE IF spk = new_p2pkh(pk.val)
         THEN Classified(InnerPublicKey(BitcoinKey("Fullkey", pk.val), "Pkh"),
                         Popped(ssig_stack), Some(spk))
         ELSE Err(E("IncorrectPubkeyHash"))

\* pay to witness pubkeyhash that compares the hash before it looks at the
\* form of the key
from_txdata_p2wpkh_hash_first(spk, ssig_stack, wit_stack) ==
    IF ssig_stack # <<>> THEN Err(E("NonEmptyScriptSig"))
    ELSE IF wit_stack = <<>> THEN Err(E("UnexpectedStackEnd"))
    ELSE LET pk == pk_from_stack_elem(Top(wit_stack), FALSE) IN
         IF ~pk.ok THEN pk
         ELSE IF spk # new_v0_wpkh(pk.val) THEN Err(E("IncorrectWPubkeyHash"))
         ELSE IF pk.val = "U" THEN Err(E("UncompressedPubkey"))
         ELSE Classified(InnerPublicKey(BitcoinKey("Fullkey", pk.val), "Wpkh"),
                         Popped(wit_stack), Some(new_p2pkh(pk.val)))

\* pay to witness pubkeyhash that hands back the witness with the key on it
from_txdata_p2wpkh_keep_key(spk, ssig_stack, wit_stack) ==
    IF ssig_stack # <<>> THEN Err(E("NonEmptyScriptSig"))
    ELSE IF wit_stack = <<>> THEN Err(E("UnexpectedStackEnd"))
    ELSE LET pk == pk_from_stack_elem(Top(wit_stack), TRUE) IN
         IF ~pk.ok THEN pk
         ELSE IF spk = new_v0_wpkh(pk.val)
         THEN Classified(InnerPublicKey(BitcoinKey("Fullkey", pk.val), "Wpkh"),
                         wit_stack, Some(new_p2pkh(pk.val)))
         ELSE Err(E("IncorrectWPubkeyHash"))

\* from_txdata, pay to witness pubkeyhash
from_txdata_p2wpkh(spk, ssig_stack, wit_stack) ==
    IF ssig_stack # <<>> THEN Err(E("NonEmptyScriptSig"))
    ELSE IF wit_stack = <<>> THEN Err(E("UnexpectedStackEnd"))
    ELSE LET pk == pk_from_stack_elem(Top(wit_stack), TRUE) IN
         IF ~pk.ok THEN pk
         ELSE IF spk = new_v0_wpkh(pk.val)
         THEN Classified(InnerPublicKey(BitcoinKey("Fullkey", pk.val), "Wpkh"),
                         Popped(wit_stack), Some(new_p2pkh(pk.val)))
         ELSE Err(E("IncorrectWPubkeyHash"))

\* pay to witness scripthash without the covenant recognition
from_txdata_p2wsh_no_cov(spk, ssig_stack, wit_stack) ==
    IF ssig_stack # <<>> THEN Err(E("NonEmptyScriptSig"))
    ELSE IF wit_stack = <<>> THEN Err(E("UnexpectedStackEnd"))
    ELSE LET elem == Top(wit_stack)
             miniscript == script_from_stack_elem("Segwitv0", elem)
         IN IF ~miniscript.ok THEN miniscript
            ELSE LET script == Ms_encode(miniscript.val) IN
                 IF spk = new_v0_wsh(script)
                 THEN Classified(
                        InnerScript(to_no_checks_ms(miniscript.val, "Fullkey"), "Wsh"),
                        Popped(wit_stack), Some(script))
                 ELSE Err(E("IncorrectWScriptHash"))

\* from_txdata, pay to witness scripthash
from_txdata_p2wsh(spk, ssig_stack, wit_stack) ==
    IF ssig_stack # <<>> THEN Err(E("NonEmptyScriptSig"))
    ELSE IF wit_stack = <<>> THEN Err(E("UnexpectedStackEnd"))
    ELSE LET elem == Top(wit_stack)
             cov == cov_components_from_stackelem(elem)
         IN IF cov.some
            THEN Classified(InnerCovScript(cov.v.pk, cov.v.ms), Popped(wit_stack),
                            Some(post_codesep_script))
            ELSE LET miniscript == script_from_stack_elem("Segwitv0", elem) IN
                 IF ~miniscript.ok THEN miniscript
                 ELSE LET script == Ms_encode(miniscript.val) IN
                      IF spk = new_v0_wsh(script)
                      THEN Classified(
                             InnerScript(to_no_checks_ms(miniscript.val, "Fullkey"), "Wsh"),
                             Popped(wit_stack), Some(script))
                      ELSE Err(E("IncorrectWScriptHash"))

\* the annex test of the taproot branch: the last witness element is a
\* push that starts with TAPROOT_ANNEX_PREFIX, and it is not the only one
has_annex(wit_stack) ==
    /\ wit_stack # <<>>
    /\ IsPush(Top(wit_stack))
    /\ "annex" \in DOMAIN Top(wit_stack)
    /\ Len(wit_stack) >= 2

\* from_txdata, pay to taproot, the match on the length of the witness
from_txdata_p2tr_spend(output_key, wit_stack) ==
    IF Len(wit_stack) = 0 THEN Err(E("UnexpectedStackEnd"))
    ELSE IF Len(wit_stack) = 1
    THEN Classified(InnerPublicKey(BitcoinKey("XOnly", output_key), "Tr"),
                    wit_stack, None)
    ELSE LET top == Top(wit_stack)
             rest == Popped(wit_stack)
         IN IF ~IsPush(top) THEN Err(E("ExpectedPush"))
            ELSE LET ctrl_blk == ControlBlock_from_slice(top)
                     tap_script == script_from_stack_elem("Tap", Top(rest))
                 IN IF ~ctrl_blk.ok THEN ctrl_blk
                    ELSE IF ~tap_script.ok THEN tap_script
                    ELSE LET script == Ms_encode_xonly(tap_script.val) IN
                         IF verify_taproot_commitment(ctrl_blk.val, output_key, script)
                         THEN Classified(
                                InnerScript(to_no_checks_ms(tap_script.val, "XOnly"), "Tr"),
                                Popped(rest), Some(script))
                         ELSE Err(E("ControlBlockVerificationError"))

\* pay to taproot that drops the annex and classifies the rest, as the
\* consensus rules do
from_txdata_p2tr_skip_annex(spk, ssig_stack, wit_stack) ==
    IF ssig_stack # <<>> THEN Err(E("NonEmptyScriptSig"))
    ELSE IF spk[2].k \notin Keys THEN Err(E("XOnlyPublicKeyParseError"))
    ELSE IF has_annex(wit_stack) THEN from_txdata_p2tr_spend(spk[2].k, Popped(wit_stack))
    ELSE from_txdata_p2tr_spend(spk[2].k, wit_stack)

\* from_txdata, pay to taproot
from_txdata_p2tr(spk, ssig_stack, wit_stack) ==
    IF ssig_stack # <<>> THEN Err(E("NonEmptyScriptSig"))
    ELSE IF spk[2].k \notin Keys THEN Err(E("XOnlyPublicKeyParseError"))
    ELSE IF has_annex(wit_stack) THEN Err(E("TapAnnexUnsupported"))
    ELSE from_txdata_p2tr_spend(spk[2].k, wit_stack)

\* from_txdata, pay to scripthash: nested wpkh, nested wsh, Legacy script
from_txdata_p2sh(spk, ssig, wit_stack) ==
    IF ssig = <<>> THEN Err(E("UnexpectedStackEnd"))
    ELSE
    LET elem == Top(ssig)
        ssig_stack == Popped(ssig)
        is_script == IsPush(elem) /\ "script" \in DOMAIN elem
        legacy ==
            LET miniscript == script_from_stack_elem("Legacy", elem) IN
            IF ~miniscript.ok THEN miniscript
            ELSE LET script == Ms_encode(miniscript.val) IN
                 IF wit_stack = <<>>
                 THEN IF spk = new_p2sh([script |-> script])
                      THEN Classified(
                             InnerScript(to_no_checks_ms(miniscript.val, "Fullkey"), "Sh"),
                             ssig_stack, Some(script))
                      ELSE Err(E("IncorrectScriptHash"))
                 ELSE Err(E("NonEmptyWitness"))
    IN IF ~IsPush(elem) THEN legacy
       ELSE IF spk # new_p2sh(elem) THEN Err(E("IncorrectScriptHash"))
       ELSE IF is_script /\ is_v0_p2wpkh(elem.script)
       THEN IF wit_stack = <<>> THEN Err(E("UnexpectedStackEnd"))
            ELSE IF ssig_stack # <<>> THEN Err(E("NonEmptyScriptSig"))
            ELSE LET pk == pk_from_stack_elem(Top(wit_stack), TRUE) IN
                 IF ~pk.ok THEN pk
                 ELSE IF elem.script = new_v0_wpkh(pk.val)
                 THEN Classified(
                        InnerPublicKey(BitcoinKey("Fullkey", pk.val), "ShWpkh"),
                        Popped(wit_stack), Some(new_p2pkh(pk.val)))
                 ELSE Err(E("IncorrectWScriptHash"))
       ELSE IF is_script /\ is_v0_p2wsh(elem.script)
       THEN IF wit_stack = <<>> THEN Err(E("UnexpectedStackEnd"))
            ELSE IF ssig_stack # <<>> THEN Err(E("NonEmptyScriptSig"))
            ELSE LET miniscript == script_from_stack_elem("Segwitv0", Top(wit_stack)) IN
                 IF ~miniscript.ok THEN miniscript
                 ELSE LET script == Ms_encode(miniscript.val) IN
                      IF elem.script = new_v0_wsh(script)
                      THEN Classified(
                             InnerScript(to_no_checks_ms(miniscript.val, "Fullkey"), "ShWsh"),
                             Popped(wit_stack), Some(script))
                      ELSE Err(E("IncorrectWScriptHash"))
       ELSE legacy

\* a bare branch that does not look at the witness
from_txdata_bare_any_witness(spk, ssig_stack, wit_stack) ==
    LET miniscript == Ms_parse_insane("BareCtx", spk) IN
    IF ~miniscript.ok THEN miniscript
    ELSE Classified(InnerScript(to_no_checks_ms(miniscript.val, "Fullkey"), "Bare"),
                    ssig_stack, Some(spk))

\* from_txdata, bare script
from_txdata_bare(spk, ssig_stack, wit_stack) ==
    IF wit_stack = <<>>
    THEN LET miniscript == Ms_parse_insane("BareCtx", spk) IN
         IF ~miniscript.ok THEN miniscript
         ELSE Classified(InnerScript(to_no_checks_ms(miniscript.val, "Fullkey"), "Bare"),
                         ssig_stack, Some(spk))
    ELSE Err(E("NonEmptyWitness"))

\* a classification that looks at the shape of the prior script before the
\* instructions of script_sig
from_txdata_shape_first(spk, script_sig, witness) ==
    LET ssig == ssig_stack_of(script_sig) IN
    IF ~ssig.ok
    THEN IF is_v0_p2wpkh(spk) \/ is_v0_p2wsh(spk) \/ is_v1_p2tr(spk)
         THEN Err(E("NonEmptyScriptSig")) ELSE ssig
    ELSE CASE is_p2pk(spk) -> from_txdata_p2pk(spk, ssig.val, witness)
           [] is_p2pkh(spk) -> from_txdata_p2pkh(spk, ssig.val, witness)
           [] is_v0_p2wpkh(spk) -> from_txdata_p2wpkh(spk, ssig.val, witness)
           [] is_v0_p2wsh(spk) -> from_txdata_p2wsh(spk, ssig.val, witness)
           [] is_v1_p2tr(spk) -> from_txdata_p2tr(spk, ssig.val, witness)
           [] is_p2sh(spk) -> from_txdata_p2sh(spk, ssig.val, witness)
           [] OTHER -> from_txdata_bare(spk, ssig.val, witness)

\* from_txdata
from_txdata(spk, script_sig, witness) ==
    LET ssig == ssig_stack_of(script_sig) IN
    IF ~ssig.ok THEN ssig
    ELSE CASE is_p2pk(spk) -> from_txdata_p2pk(spk, ssig.val, witness)
           [] is_p2pkh(spk) -> from_txdata_p2pkh(spk, ssig.val, witness)
           [] is_v0_p2wpkh(spk) -> from_txdata_p2wpkh(spk, ssig.val, witness)
           [] is_v0_p2wsh(spk) -> from_txdata_p2wsh(spk, ssig.val, witness)
           [] is_v1_p2tr(spk) -> from_txdata_p2tr(spk, ssig.val, witness)
           [] is_p2sh(spk) -> from_txdata_p2sh(spk, ssig.val, witness)
           [] OTHER -> from_txdata_bare(spk, ssig.val, witness)

(***************************************************************************)
(* Inputs of the model                                                     *)
(***************************************************************************)
\* The largest number of keys in a multi() the model builds.
MaxMultiKeys == 4

KeySeqs(n) == {ks \in [1..n -> Keys] : \A i \in 1..n : ks[i] = <<"A", "B", "C", "A", "B", "C">>[i]}

\* The Miniscripts the model builds descriptors from.
MsUniverse ==
    {MsPk(k) : k \in {"A", "B"}} \cup {MsPkh("A")}
    \cup {MsMulti(1, ks) : ks \in UNION {KeySeqs(n) : n \in 2..MaxMultiKeys}}
    \cup {MsMulti(2, ks) : ks \in KeySeqs(2)}

\* The segwit and script-hash descriptors the dispatcher can wrap.
SegwitDescs == {WpkhD("A"), ShD(MsPk("A")), WshD(MsPk("B"))}

\* The binding keys and inner Miniscripts of the covenants the model builds.
CovKeys == {"A", "C"}

CovMsUniverse == {MsPk("B"), MsMulti(1, <<"A", "B">>)}

\* How far around each ceiling the metadata of a Miniscript is sampled.
Slack == 2

OpsSamples ==
    {None} \cup {Some(n) : n \in 0..Slack}
    \cup {Some(n) : n \in (MAX_OPS_PER_SCRIPT - cov_script_ops - Slack)
                          ..(MAX_OPS_PER_SCRIPT - cov_script_ops + 1 + Slack)}

SizeSamples ==
    {35} \cup ((MAX_SCRIPT_SIZE - 58 - Slack)..(MAX_SCRIPT_SIZE - 58 + 1 + Slack))

OpaqueMs ==
    {MsOpaque(ops, fv, size) : ops \in OpsSamples, fv \in BOOLEAN, size \in SizeSamples}

\* The most sighash lookups a satisfier of the model leaves unanswered.
MaxMissing == 2

\* The DER length of the signature each key makes.
SigDerLen(k) == IF k = "B" THEN 70 ELSE 71

ElementsSig(k, ty) == [sig |-> [by |-> k, der_len |-> SigDerLen(k)], hash_ty |-> ty]

SigMaps == [Keys -> {0, 1, 3}]

\* The amounts a satisfier answers lookup_value with.
Values == {[kind |-> "Explicit"], [kind |-> "Null"], [kind |-> "Confidential"]}

\* A satisfier: the sighash items it lacks, its sighash type, for each key
\* no signature (0) or one made with sighash type 1 or 3, and the script
\* code and the amount it answers with.
SatisfierWith(missing, ty, sm, script_code, value) ==
    [nversion |-> IF "nversion" \in missing THEN None ELSE Some("nVersion"),
     hashprevouts |-> IF "hashprevouts" \in missing THEN None ELSE Some("hashPrevouts"),
     hashsequence |-> IF "hashsequence" \in missing THEN None ELSE Some("hashSequence"),
     hashissuances |-> IF "hashissuances" \in missing THEN None ELSE Some("hashIssuances"),
     outpoint |-> IF "outpoint" \in missing THEN None ELSE Some("outpoint"),
     scriptcode |-> IF "scriptcode" \in missing THEN None ELSE Some(script_code),
     value |-> IF "value" \in missing THEN None ELSE Some(value),
     nsequence |-> IF "nsequence" \in missing THEN None ELSE Some("nSequence"),
     outputs |-> IF "outputs" \in missing THEN None ELSE Some(<<"txout0", "txout1">>),
     nlocktime |-> IF "nlocktime" \in missing THEN None ELSE Some("nLocktime"),
     sighashu32 |-> IF "sighashu32" \in missing THEN None ELSE Some(ty),
     sigs |-> [k \in Keys |-> IF sm[k] = 0 THEN None ELSE Some(ElementsSig(k, sm[k]))]]

\* the satisfier of a spend signed over the covenant script code, with an
\* explicit amount
Satisfier(missing, ty, sm) ==
    SatisfierWith(missing, ty, sm, post_codesep_script, [kind |-> "Explicit"])

MissingSets == {m \in SUBSET Range(SighashItems) : Cardinality(m) <= MaxMissing}

Missing(s) == {i \in Range(SighashItems) : ~s[i].some}

\* The transaction data the interpreter is given.
DummySig == sig_to_vec(ElementsSig("A", 1))

CovScript == Cov_encode(CovD("A", MsPk("B")))

TapLeaf == Ms_encode_xonly(MsPk("B"))

\* control blocks: committing TapLeaf to the output key A, to another output
\* key, and another leaf to A
CtrlBlocks ==
    {[ctrl |-> [key |-> k, leaf |-> l]] :
        k \in {"A", "B"}, l \in {TapLeaf, Ms_encode_xonly(MsPk("C"))}}

Redeems ==
    {[script |-> Ms_encode(MsMulti(1, <<"A", "U">>))],
     [script |-> new_v0_wpkh("A")],
     [script |-> new_v0_wsh(Ms_encode(MsPk("B")))],
     [script |-> <<Tk("Cat")>>]}

PriorScripts ==
    {new_p2pk(k) : k \in {"A", "U", "X"}}
    \cup {new_p2pkh(k) : k \in {"A", "U"}}
    \cup {new_v0_wpkh(k) : k \in {"A", "U"}}
    \cup {new_v0_wsh(sc) : sc \in {Ms_encode(MsPk("B")), Ms_encode(MsPkh("A")), CovScript}}
    \cup {new_v1_p2tr(k) : k \in {"A", "X"}}
    \cup {new_p2sh(e) : e \in Redeems}
    \cup {new_p2sh([script |-> Ms_encode(MsFalse)])}
    \cup {Ms_encode(MsMulti(1, <<"A", "B">>)), <<>>, <<TkNum(1)>>}

ScriptSigs ==
    {<<>>, <<TkPush(DummySig)>>, <<TkPush(DummySig), TkPubkey("A")>>,
     <<TkPush(DummySig), TkPubkey("U")>>, <<TkPubkey("B")>>, <<TkPush(DummySig), TkNum(0)>>,
     <<Tk("Dup")>>, <<TkPush(DummySig), Tk("Dup")>>, <<Tk("CheckSig"), TkPubkey("A")>>}
    \cup {<<TkPush(e)>> : e \in Redeems}
    \cup {<<TkNum(0), TkPush(DummySig), TkPush(e)>> : e \in Redeems}

Witnesses ==
    {<<>>, <<DummySig>>, <<[annex |-> TRUE]>>, <<DummySig, [annex |-> TRUE]>>,
     <<DummySig, [empty |-> TRUE]>>, <<DummySig, [one |-> TRUE]>>}
    \cup {<<[key |-> k]>> : k \in {"A", "U"}}
    \cup {<<DummySig, [key |-> k]>> : k \in {"A", "B", "U", "X"}}
    \cup {<<DummySig, [script |-> sc]>> :
            sc \in {Ms_encode(MsPk("B")), Ms_encode(MsPk("U")), Ms_encode(MsPkh("A")),
                    CovScript,
                    Cov_encode(CovD("C", MsPk("B"))), <<Tk("Cat")>>}}
    \cup {<<[script |-> TapLeaf], c>> : c \in CtrlBlocks}
    \cup {<<DummySig, [script |-> TapLeaf], [ctrl |-> [key |-> "A", leaf |-> TapLeaf]]>>,
          <<[script |-> TapLeaf], [ctrl |-> [key |-> "A", leaf |-> TapLeaf]],
            [annex |-> TRUE]>>,
          <<[script |-> <<Tk("Cat")>>], [ctrl |-> [key |-> "B", leaf |-> TapLeaf]]>>,
          <<[script |-> <<Tk("Cat")>>], [ctrl |-> [key |-> "A", leaf |-> <<Tk("Cat")>>]]>>,
          <<[script |-> TapLeaf], [key |-> "A"]>>,
          <<[script |-> TapLeaf], [empty |-> TRUE]>>}

\* The network parameters an address is asked for.
AddressParams == {"ELEMENTS", "LIQUID"}

\* The keys and key hashes a predicate or a translator is asked about.
AllItems == {KeyItem(k) : k \in Keys} \cup {HashItem("A")}

Translators == [pk_fail : SUBSET Keys, pkh_fail : SUBSET {"A"}]

T0(name) == Tree(name, <<>>)

\* Names and argument lists of the expression trees handed to from_tree.
TreeNames ==
    {<<"p", "k", "h">>, <<"w", "p", "k", "h">>, <<"s", "h">>, <<"w", "s", "h">>,
     <<"p", "k">>, <<"m", "u", "l", "t", "i">>, <<"e", "l">>,
     <<"e", "l", "p", "k", "h">>, <<"e", "l", "w", "p", "k", "h">>,
     <<"e", "l", "s", "h">>, <<"e", "l", "w", "s", "h">>, <<"e", "l", "p", "k">>,
     <<"e", "l", "m", "u", "l", "t", "i">>}

TreeArgs ==
    {<<>>, <<T0(<<"A">>)>>, <<T0(<<"B">>)>>, <<T0(<<"c">>)>>,
     <<Tree(<<"p", "k">>, <<T0(<<"A">>)>>)>>,
     <<T0(<<"A">>), T0(<<"B">>)>>,
     <<T0(<<"1">>), T0(<<"A">>), T0(<<"B">>)>>}

TestTrees == {Tree(n, a) : n \in TreeNames, a \in TreeArgs}

\* The trees the dispatcher hands to Wpkh, Sh or Wsh, and the others.
SegwitTrees ==
    {t \in TestTrees : t.name \in {<<"w", "p", "k", "h">>, <<"s", "h">>, <<"w", "s", "h">>}
                        /\ Len(t.args) = 1}

CoreTrees == TestTrees \ SegwitTrees

\* The number of subexpressions of the longest thresh the model parses.
MaxThresh == 60

\* thresh(1, pk(A), s:pk(B), s:pk(B), ...) of n subexpressions
ThreshTree(n) ==
    Tree(<<"t", "h", "r", "e", "s", "h">>,
         <<T0(<<"1">>)>> \o
         [i \in 1..n |-> IF i = 1 THEN Tree(<<"p", "k">>, <<T0(<<"A">>)>>)
                         ELSE Tree(<<"s", ":", "p", "k">>, <<T0(<<"B">>)>>)])

\* The trees handed to CovenantDescriptor::from_tree.
CovTrees ==
    {Tree(name, <<T0(<<k>>), sub>>) :
        name \in {<<"e", "l", "c", "o", "v", "w", "s", "h">>, <<"e", "l", "w", "s", "h">>},
        k \in {"A", "X"},
        sub \in {Tree(<<"p", "k">>, <<T0(<<"B">>)>>),
                 Tree(<<"s", ":", "p", "k">>, <<T0(<<"B">>)>>),
                 T0(<<"B">>)}
                \cup {ThreshTree(n) : n \in {2, MaxThresh - 1, MaxThresh}}}

\* The scripts handed to CovenantDescriptor::parse_insane: Miniscripts and
\* other token runs before the covenant preamble, and damaged preambles.
CovParseScripts ==
    {m \o verify_cov(k) :
        m \in {Ms_encode(MsPk("B")), Ms_encode(MsMulti(1, <<"A", "B">>)),
               Ms_encode(Ms("thresh", 1, [i \in 1..MaxThresh |-> KeyItem("B")])),
               <<TkPubkey("B"), Tk("CheckSig"), Tk("Verify")>>,
               <<TkPubkey("B"), Tk("CheckSig"), Tk("Verify"), TkPubkey("A"), Tk("CheckSig")>>,
               <<Tk("Swap"), TkPubkey("B"), Tk("CheckSig")>>,
               <<Tk("ToAltStack"), TkNum(1)>>,
               <<TkPubkey("U"), Tk("CheckSig")>>,
               <<TkPubkey("B")>>,
               <<TkNum(0)>>,
               <<TkNum(1)>>,
               <<>>},
        k \in {"A", "X"}}
    \cup {<<>>, Ms_encode(MsPk("B")), SubSeq(verify_cov("A"), 5, Len(verify_cov("A"))),
          Ms_encode(MsPk("B")) \o <<Tk("Dup")>> \o Tail(verify_cov("A"))}

\* Display of any descriptor value of the model
Fmt(d) ==
    CASE d.variant = "Bare" -> Bare_fmt(d)
      [] d.variant = "Pkh" -> Pkh_fmt(d)
      [] d.variant = "Cov" -> Cov_fmt(d)
      [] OTHER -> PreTaproot_fmt(d)

\* T::from_str for the type T of descriptor d
FromStrOf(d, s) ==
    CASE d.variant = "Bare" -> Bare_from_str(s)
      [] d.variant = "Pkh" -> Pkh_from_str(s)
      [] d.variant = "Cov" -> Cov_from_str(s)
      [] OTHER -> PreTaproot_from_str(s)

Displayable(d) ==
    \/ d.variant \in {"Bare", "Pkh", "PreTaproot"}
    \/ d.variant = "Cov" /\ Enumerated(d.ms)

\* the descriptors whose keys the model enumerates
HasKeys(d) ==
    \/ d.variant \in {"Bare", "Pkh"}
    \/ d.variant = "Cov" /\ Enumerated(d.ms)

ForEachKeyOf(d, accept) ==
    CASE d.variant = "Bare" -> Bare_for_each_key(d, accept)
      [] d.variant = "Pkh" -> Pkh_for_each_key(d, accept)
      [] OTHER -> Cov_for_each_key(d, accept)

TranslatePkOf(d, t) ==
    CASE d.variant = "Bare" -> Bare_translate_pk(d, t)
      [] d.variant = "Pkh" -> Pkh_translate_pk(d, t)
      [] OTHER -> Cov_translate_pk(d, t)

SepPos(s) == Min({i \in 1..Len(s) : s[i] = "#"})

\* One changed character, anywhere but the separator; or no change.
Mutations(s) ==
    {[pos |-> 0, ch |-> "#"]}
    \cup {[pos |-> p, ch |-> c] : p \in (1..Len(s)) \ {SepPos(s)}, c \in Range(INPUT_CHARSET)}

Mutate(s, m) == IF m.pos = 0 THEN s ELSE [s EXCEPT ![m.pos] = m.ch]

(***************************************************************************)
(* The calls                                                               *)
(***************************************************************************)
Idle == op = "idle"

Init ==
    /\ desc = NoDesc
    /\ op = "idle"
    /\ arg = [none |-> TRUE]
    /\ out = Ok("unit")

Call_Bare_new ==
    \E ms \in MsUniverse :
      LET r == Bare_new(ms) IN
      /\ Idle
      /\ op' = "Bare::new"
      /\ arg' = [ms |-> ms]
      /\ out' = r
      /\ desc' = IF r.ok THEN r.val ELSE desc

Call_Pkh_new ==
    \E pk \in Keys :
      /\ Idle
      /\ op' = "Pkh::new"
      /\ arg' = [pk |-> pk]
      /\ out' = Ok(Pkh_new(pk))
      /\ desc' = Pkh_new(pk)

Call_Cov_new ==
    \E pk \in CovKeys, ms \in CovMsUniverse \cup OpaqueMs :
      LET r == CovenantDescriptor_new(pk, ms) IN
      /\ Idle
      /\ op' = "CovenantDescriptor::new"
      /\ arg' = [pk |-> pk, ms |-> ms]
      /\ out' = r
      /\ desc' = IF r.ok THEN r.val ELSE desc

\* PreTaprootDescriptor::Bare(b), PreTaprootDescriptor::Pkh(p)
Call_PreTaproot_wrap ==
    /\ Idle
    /\ desc.variant \in {"Bare", "Pkh"}
    /\ op' = "PreTaprootDescriptor"
    /\ arg' = [inner |-> desc]
    /\ out' = Ok(PreTaprootD(desc))
    /\ desc' = PreTaprootD(desc)

\* PreTaprootDescriptor::Wpkh(w), ::Sh(s), ::Wsh(w)
Call_PreTaproot_wrap_segwit ==
    \E inner \in SegwitDescs :
      /\ Idle
      /\ op' = "PreTaprootDescriptor"
      /\ arg' = [inner |-> inner]
      /\ out' = Ok(PreTaprootD(inner))
      /\ desc' = PreTaprootD(inner)

Call_to_string ==
    /\ Idle
    /\ Displayable(desc)
    /\ op' = "to_string"
    /\ arg' = [none |-> TRUE]
    /\ out' = Fmt(desc)
    /\ UNCHANGED desc

\* T::from_str on desc.to_string(), as printed or with one character changed
Call_from_str ==
    /\ Idle
    /\ Displayable(desc)
    /\ Fmt(desc).ok
    /\ \E m \in Mutations(Fmt(desc).val) :
         LET printed == Fmt(desc).val
             s == Mutate(printed, m)
         IN /\ s # printed \/ m.pos = 0
            /\ op' = "from_str"
            /\ arg' = [s |-> s,
                       changed |-> IF m.pos = 0 THEN "none"
                                   ELSE IF m.pos > SepPos(printed) THEN "tag"
                                   ELSE "body"]
            /\ out' = FromStrOf(desc, s)
    /\ UNCHANGED desc

Call_PreTaproot_from_tree ==
    \E top \in CoreTrees :
      /\ Idle
      /\ op' = "PreTaprootDescriptor::from_tree"
      /\ arg' = [top |-> top]
      /\ out' = PreTaproot_from_tree(top)
      /\ UNCHANGED desc

\* the same on the trees handed to Wpkh, Sh or Wsh
Call_PreTaproot_from_tree_segwit ==
    \E top \in SegwitTrees :
      /\ Idle
      /\ op' = "PreTaprootDescriptor::from_tree"
      /\ arg' = [top |-> top]
      /\ out' = PreTaproot_from_tree(top)
      /\ UNCHANGED desc

Call_Cov_from_tree ==
    \E top \in CovTrees :
      /\ Idle
      /\ op' = "CovenantDescriptor::from_tree"
      /\ arg' = [top |-> top]
      /\ out' = Cov_from_tree(top)
      /\ UNCHANGED desc

Call_Cov_parse_insane ==
    \E script \in CovParseScripts :
      /\ Idle
      /\ op' = "CovenantDescriptor::parse_insane"
      /\ arg' = [script |-> script]
      /\ out' = Cov_parse_insane(script)
      /\ UNCHANGED desc

Call_Cov_satisfy ==
    /\ Idle
    /\ desc.variant = "Cov" /\ Enumerated(desc.ms)
    /\ \E missing \in MissingSets, ty \in {1, 3}, sm \in SigMaps :
         LET s == Satisfier(missing, ty, sm) IN
         /\ op' = "CovenantDescriptor::satisfy"
         /\ arg' = [s |-> s, ty |-> ty, sm |-> sm]
         /\ out' = CovenantDescriptor_satisfy(desc, s)
    /\ UNCHANGED desc

Call_Cov_get_satisfaction ==
    /\ Idle
    /\ desc.variant = "Cov" /\ Enumerated(desc.ms)
    /\ \E missing \in MissingSets, ty \in {1, 3}, sm \in SigMaps, value \in Values,
          script_code \in {Cov_cov_script_code(desc), Cov_script_code(desc)} :
         LET s == SatisfierWith(missing, ty, sm, script_code, value) IN
         /\ op' = "CovenantDescriptor::get_satisfaction"
         /\ arg' = [s |-> s, ty |-> ty, sm |-> sm]
         /\ out' = Cov_get_satisfaction(desc, s)
    /\ UNCHANGED desc

Call_for_each_key ==
    /\ Idle
    /\ HasKeys(desc)
    /\ \E accept \in SUBSET AllItems :
         /\ op' = "for_each_key"
         /\ arg' = [accept |-> accept]
         /\ out' = ForEachKeyOf(desc, accept)
    /\ UNCHANGED desc

Call_translate_pk ==
    /\ Idle
    /\ HasKeys(desc)
    /\ \E t \in Translators :
         /\ op' = "translate_pk"
         /\ arg' = [self |-> desc, t |-> t]
         /\ out' = TranslatePkOf(desc, t)
    /\ UNCHANGED desc

\* The descriptors whose DescriptorTrait methods the model calls: Bare and
\* Pkh directly, and the dispatcher over each of its five variants.
Spendable(d) == d.variant \in {"Bare", "Pkh", "PreTaproot"}

Call_get_satisfaction ==
    /\ Idle
    /\ Spendable(desc)
    /\ \E sm \in SigMaps, mall \in BOOLEAN :
         LET s == Satisfier({}, 1, sm) IN
         /\ op' = "get_satisfaction"
         /\ arg' = [s |-> s, mall |-> mall]
         /\ out' = CASE desc.variant = "Bare" ->
                          IF mall THEN Bare_get_satisfaction_mall(desc, s)
                          ELSE Bare_get_satisfaction(desc, s)
                     [] desc.variant = "Pkh" ->
                          IF mall THEN Pkh_get_satisfaction_mall(desc, s)
                          ELSE Pkh_get_satisfaction(desc, s)
                     [] OTHER ->
                          IF mall THEN PreTaproot_get_satisfaction_mall(desc, s)
                          ELSE PreTaproot_get_satisfaction(desc, s)
    /\ UNCHANGED desc

Call_max_satisfaction_weight ==
    /\ Idle
    /\ Spendable(desc) \/ (desc.variant = "Cov" /\ Enumerated(desc.ms))
    /\ op' = "max_satisfaction_weight"
    /\ arg' = [none |-> TRUE]
    /\ out' = CASE desc.variant = "Bare" -> Bare_max_satisfaction_weight(desc)
                [] desc.variant = "Pkh" -> Pkh_max_satisfaction_weight(desc)
                [] desc.variant = "Cov" -> Cov_max_satisfaction_weight(desc)
                [] OTHER -> PreTaproot_max_satisfaction_weight(desc)
    /\ UNCHANGED desc

Call_address ==
    /\ Idle
    /\ Spendable(desc)
    /\ \E params \in AddressParams :
         /\ op' = "address"
         /\ arg' = [params |-> params]
         /\ out' = CASE desc.variant = "Bare" -> Bare_address(desc, params)
                     [] desc.variant = "Pkh" -> Pkh_address(desc, params)
                     [] OTHER -> PreTaproot_address(desc, params)
    /\ UNCHANGED desc

Call_blind_addr ==
    /\ Idle
    /\ Spendable(desc)
    /\ \E params \in AddressParams, blinder \in {None, Some("blinder")} :
         /\ op' = "blind_addr"
         /\ arg' = [params |-> params, blinder |-> blinder]
         /\ out' = CASE desc.variant = "Bare" -> Bare_blind_addr(desc, blinder, params)
                     [] desc.variant = "Pkh" -> Pkh_blind_addr(desc, blinder, params)
                     [] OTHER -> PreTaproot_blind_addr(desc, blinder, params)
    /\ UNCHANGED desc

\* explicit_script and script_code, through DescriptorTrait and, for
\* Pkh and the dispatcher, through PreTaprootDescriptorTrait
Call_explicit_script ==
    /\ Idle
    /\ Spendable(desc) \/ (desc.variant = "Cov" /\ Enumerated(desc.ms))
    /\ \E nonfailing \in BOOLEAN :
         /\ nonfailing => desc.variant = "PreTaproot"
         /\ op' = "explicit_script"
         /\ arg' = [nonfailing |-> nonfailing]
         /\ out' = CASE desc.variant = "Bare" -> Bare_explicit_script(desc)
                     [] desc.variant = "Pkh" -> Pkh_explicit_script(desc)
                     [] desc.variant = "Cov" -> Ok(Cov_explicit_script(desc))
                     [] OTHER -> IF nonfailing THEN PreTaprootTrait_explicit_script(desc)
                                 ELSE PreTaproot_explicit_script(desc)
    /\ UNCHANGED desc

Call_script_code ==
    /\ Idle
    /\ Spendable(desc) \/ (desc.variant = "Cov" /\ Enumerated(desc.ms))
    /\ \E nonfailing \in BOOLEAN :
         /\ nonfailing => desc.variant = "PreTaproot"
         /\ op' = "script_code"
         /\ arg' = [nonfailing |-> nonfailing]
         /\ out' = CASE desc.variant = "Bare" -> Bare_script_code(desc)
                     [] desc.variant = "Pkh" -> Pkh_script_code(desc)
                     [] desc.variant = "Cov" -> Ok(Cov_script_code(desc))
                     [] OTHER -> IF nonfailing THEN PreTaprootTrait_script_code(desc)
                                 ELSE PreTaproot_script_code(desc)
    /\ UNCHANGED desc

Call_cov_script_code ==
    /\ Idle
    /\ desc.variant = "Cov" /\ Enumerated(desc.ms)
    /\ op' = "cov_script_code"
    /\ arg' = [none |-> TRUE]
    /\ out' = Ok(Cov_cov_script_code(desc))
    /\ UNCHANGED desc

Call_from_txdata ==
    /\ Idle
    /\ \E spk \in PriorScripts, script_sig \in ScriptSigs, witness \in Witnesses :
         /\ op' = "from_txdata"
         /\ arg' = [spk |-> spk, script_sig |-> script_sig, witness |-> witness]
         /\ out' = from_txdata(spk, script_sig, witness)
    /\ UNCHANGED desc

\* the caller drops the result of the call
Return ==
    /\ ~Idle
    /\ op' = "idle"
    /\ arg' = [none |-> TRUE]
    /\ out' = Ok("unit")
    /\ UNCHANGED desc

Next ==
    \/ Return
    \/ Call_Bare_new
    \/ Call_Pkh_new
    \/ Call_PreTaproot_wrap
    \/ Call_to_string
    \/ Call_from_str
    \/ Call_PreTaproot_from_tree
    \/ Call_Cov_new
    \/ Call_Cov_from_tree
    \/ Call_Cov_parse_insane
    \/ Call_PreTaproot_wrap_segwit
    \/ Call_PreTaproot_from_tree_segwit
    \/ Call_Cov_satisfy
    \/ Call_Cov_get_satisfaction
    \/ Call_for_each_key
    \/ Call_get_satisfaction
    \/ Call_max_satisfaction_weight
    \/ Call_address
    \/ Call_blind_addr
    \/ Call_explicit_script
    \/ Call_script_code
    \/ Call_cov_script_code
    \/ Call_from_txdata
    \/ Call_translate_pk

\* Every call of the model.
Spec == Init /\ [][Next]_vars

\* The calls that run only code of bare.rs, pretaproot.rs and cov.rs: the
\* dispatcher is not handed the Wpkh, Sh and Wsh variants.
NextCore ==
    \/ Return
    \/ Call_Bare_new
    \/ Call_Pkh_new
    \/ Call_Cov_new
    \/ Call_PreTaproot_wrap
    \/ Call_to_string
    \/ Call_from_str
    \/ Call_PreTaproot_from_tree
    \/ Call_Cov_satisfy
    \/ Call_Cov_get_satisfaction
    \/ Call_for_each_key
    \/ Call_get_satisfaction
    \/ Call_max_satisfaction_weight
    \/ Call_address
    \/ Call_blind_addr
    \/ Call_explicit_script
    \/ Call_script_code
    \/ Call_cov_script_code
    \/ Call_translate_pk

SpecCore == Init /\ [][NextCore]_vars

\* The interpreter alone: it is handed transaction data, never a descriptor.
NextInterp ==
    \/ Return
    \/ Call_from_txdata

SpecInterp == Init /\ [][NextInterp]_vars

(***************************************************************************)
(* Claims                                                                  *)
(***************************************************************************)
\* C1: for every constructible PreTaprootDescriptor d,
\* PreTaprootDescriptor::from_str(d.to_string()) returns Ok(d), with the
\* same variant tag.
C1_PreTaprootRoundTrip ==
    (op = "from_str" /\ desc.variant = "PreTaproot" /\ arg.changed = "none")
        => out = Ok(desc)

\* C2: for every Bare descriptor b built by Bare::new,
\* Bare::from_str(b.to_string()) returns Ok(b).
C2_BareRoundTrip ==
    (op = "from_str" /\ desc.variant = "Bare" /\ arg.changed = "none")
        => out = Ok(desc)

\* C3: the dispatcher's from_tree returns the Pkh, Wpkh, Sh or Wsh variant
\* for a tree named exactly pkh, wpkh, sh or wsh with one valid argument,
\* and for every other tree the Bare variant or an error.
C3_DispatchByName ==
    op = "PreTaprootDescriptor::from_tree" =>
      LET top == arg.top
          one == Len(top.args) = 1
      IN CASE top.name = <<"p", "k", "h">> /\ one ->
                terminal_key(top.args[1]).ok
                  => out = Ok(PreTaprootD(PkhD(terminal_key(top.args[1]).val)))
           [] top.name = <<"w", "p", "k", "h">> /\ one ->
                terminal_key(top.args[1]).ok
                  => out = Ok(PreTaprootD(WpkhD(terminal_key(top.args[1]).val)))
           [] top.name = <<"s", "h">> /\ one ->
                Ms_from_tree(top.args[1]).ok
                  => out = Ok(PreTaprootD(ShD(Ms_from_tree(top.args[1]).val)))
           [] top.name = <<"w", "s", "h">> /\ one ->
                Ms_from_tree(top.args[1]).ok
                  => out = Ok(PreTaprootD(WshD(Ms_from_tree(top.args[1]).val)))
           [] OTHER -> (~out.ok) \/ out.val.inner.variant = "Bare"

\* C4: a descriptor string printed by Display with one character of its
\* tag changed, or one character of its body changed and the tag kept, is
\* rejected by from_str with the checksum error (Bare, Pkh,
\* CovenantDescriptor and PreTaprootDescriptor alike).
C4_ChecksumRejects ==
    (op = "from_str" /\ arg.changed \in {"tag", "body"})
        => IsErrKind(out, "BadChecksum")

C4_Witness ==
    /\ op = "from_str"
    /\ desc.variant = "Pkh"
    /\ arg.changed = "tag"
    /\ IsErrKind(out, "BadChecksum")

\* C5: CovenantDescriptor::new fails when the op count is undefined or op
\* count + 24 - (1 if free verify) exceeds MAX_OPS_PER_SCRIPT, succeeds when
\* the total is exactly MAX_OPS_PER_SCRIPT and the size check passes, and
\* its arithmetic never underflows.
C5_OpCountBoundary ==
    op = "CovenantDescriptor::new" =>
      LET ext == arg.ms.ext
          fv == IF ext.has_free_verify THEN 1 ELSE 0
      IN /\ ~IsErrKind(out, "panic")
         /\ ~ext.ops_count_sat.some => ~out.ok
         /\ ext.ops_count_sat.some =>
              LET total == ext.ops_count_sat.v + 24 - fv IN
              /\ total >= 0
              /\ total > MAX_OPS_PER_SCRIPT => ~out.ok
              /\ (total = MAX_OPS_PER_SCRIPT /\ Ms_script_size(arg.ms) + 58 - fv <= MAX_SCRIPT_SIZE)
                   => out = Ok(CovD(arg.pk, arg.ms))

C5_Witness ==
    /\ op = "CovenantDescriptor::new"
    /\ arg.ms.ext.ops_count_sat = Some(178)
    /\ arg.ms.ext.has_free_verify
    /\ out.ok

\* C6: a successful satisfy returns the 12 covenant items in the order
\* [signature (DER), nVersion, hashPrevouts, hashSequence, hashIssuances,
\* outpoint, scriptCode, value, nSequence, hashOutputs, nLocktime,
\* sighashType], hashOutputs being the double SHA256 of the serialized
\* outputs, followed by the witness of the inner Miniscript;
\* get_satisfaction appends the explicit script and returns an empty
\* script_sig.
C6_WitnessOrder ==
    (op \in {"CovenantDescriptor::satisfy", "CovenantDescriptor::get_satisfaction"}
     /\ out.ok) =>
      LET s == arg.s
          items == <<[der |-> s.sigs[desc.pk].v.sig],
                     [ser |-> s.nversion.v],
                     [ser |-> s.hashprevouts.v],
                     [ser |-> s.hashsequence.v],
                     [ser |-> s.hashissuances.v],
                     [ser |-> s.outpoint.v],
                     [ser |-> s.scriptcode.v],
                     [ser |-> s.value.v],
                     [ser |-> s.nsequence.v],
                     [ser |-> [sha256d |->
                         [i \in 1..Len(s.outputs.v) |-> [ser |-> s.outputs.v[i]]]]],
                     [ser |-> s.nlocktime.v],
                     [ser |-> s.sighashu32.v]>>
          expected == items \o Ms_satisfy(desc.ms, s).val
      IN IF op = "CovenantDescriptor::satisfy"
         THEN out.val = expected
         ELSE /\ out.val.witness = Append(expected, [script |-> Cov_encode(desc)])
              /\ out.val.script_sig = <<>>

C6_Witness ==
    /\ op = "CovenantDescriptor::get_satisfaction"
    /\ out.ok
    /\ Len(out.val.witness) = 15

\* C7: with exactly one sighash item missing, satisfy fails with
\* MissingSighashItem(n) and no other missing item gives the same n; with
\* every item present and no signature for pk it fails with
\* MissingCovSignature.
C7_MissingItemIdentified ==
    op = "CovenantDescriptor::satisfy" =>
      /\ (Missing(arg.s) = {} /\ ~arg.s.sigs[desc.pk].some)
           => IsErrKind(out, "MissingCovSignature")
      /\ \A f \in Range(SighashItems) :
           Missing(arg.s) = {f} =>
             /\ IsErrKind(out, "MissingSighashItem")
             /\ \A g \in Range(SighashItems) \ {f} :
                  CovenantDescriptor_satisfy(desc, Satisfier({g}, arg.ty, arg.sm)) # out

\* C8: with every sighash item and the covenant signature available and
\* the signature's hash type different from the sighashType item, satisfy
\* fails with CovenantSighashTypeMismatch whether or not the inner
\* Miniscript can be satisfied; a failure carries no witness and a success
\* carries the whole one.
C8_SighashTypeMismatch ==
    op \in {"CovenantDescriptor::satisfy", "CovenantDescriptor::get_satisfaction"} =>
      LET s == arg.s
          es == s.sigs[desc.pk]
      IN /\ (Missing(s) = {} /\ es.some /\ es.v.hash_ty # s.sighashu32.v)
              => IsErrKind(out, "CovenantSighashTypeMismatch")
         /\ ~out.ok => DOMAIN out = {"ok", "err"}
         /\ out.ok => /\ Missing(s) = {}
                      /\ es.some
                      /\ es.v.hash_ty = s.sighashu32.v
                      /\ Ms_satisfy(desc.ms, s).ok

C8_Witness ==
    /\ op = "CovenantDescriptor::satisfy"
    /\ Missing(arg.s) = {}
    /\ arg.s.sigs[desc.pk].some
    /\ arg.s.sigs[desc.pk].v.hash_ty # arg.s.sighashu32.v
    /\ ~Ms_satisfy(desc.ms, arg.s).ok
    /\ IsErrKind(out, "CovenantSighashTypeMismatch")

\* C9: CovenantDescriptor::for_each_key(pred) is true exactly when pred
\* accepts pk and every key of the inner Miniscript, and pred is not called
\* again after it has rejected a key.
C9_ForEachKeyAll ==
    (op = "for_each_key" /\ desc.variant = "Cov") =>
      LET all == <<KeyItem(desc.pk)>> \o desc.ms.items IN
      /\ out.ret = (\A i \in 1..Len(all) : all[i] \in arg.accept)
      /\ \A i \in 1..(Len(out.calls) - 1) : out.calls[i] \in arg.accept

\* C10: translate_pk on Bare, Pkh and CovenantDescriptor never panics,
\* succeeds when neither map fails on a key of the descriptor, and
\* otherwise returns the failure of the first key in traversal order (the
\* covenant's binding key before the keys of its Miniscript); the source
\* descriptor is unchanged.
C10_TranslateFirstFailure ==
    op = "translate_pk" =>
      LET t == arg.t
          order == CASE desc.variant = "Bare" -> desc.ms.items
                     [] desc.variant = "Pkh" -> <<KeyItem(desc.pk)>>
                     [] OTHER -> <<KeyItem(desc.pk)>> \o desc.ms.items
          bad == {i \in 1..Len(order) :
                    IF order[i].kind = "key" THEN order[i].id \in t.pk_fail
                    ELSE order[i].id \in t.pkh_fail}
      IN /\ desc = arg.self
         /\ ~IsErrKind(out, "panic")
         /\ bad = {} => (out.ok /\ out.val.variant = desc.variant)
         /\ bad # {} => out = Err([kind |-> "TranslateError", item |-> order[Min(bad)]])

C10_Witness ==
    /\ op = "translate_pk"
    /\ desc.variant = "Cov"
    /\ desc.pk \in arg.t.pk_fail
    /\ \E i \in 1..Len(desc.ms.items) : desc.ms.items[i].id \in arg.t.pk_fail
    /\ ~out.ok

\* C11: whenever get_satisfaction of a Pkh, Bare or CovenantDescriptor
\* succeeds, the serialized weight of the returned (witness, script_sig),
\* four times the length-prefixed script_sig plus the witness count and
\* every witness element with its length prefix, is at most
\* max_satisfaction_weight().
C11_WeightBound ==
    /\ (op = "get_satisfaction" /\ desc.variant = "Pkh" /\ out.ok) =>
         SpendWeight(out.val.script_sig, <<>>) <= Pkh_max_satisfaction_weight(desc).val
    /\ (op = "get_satisfaction" /\ desc.variant = "Bare" /\ out.ok) =>
         SpendWeight(out.val.script_sig, <<>>) <= Bare_max_satisfaction_weight(desc).val
    /\ (op = "CovenantDescriptor::get_satisfaction" /\ out.ok) =>
         LET w == out.val.witness
             lens == [i \in 1..Len(w) |->
                        IF i <= 12 THEN CovItemLen(i, w[i])
                        ELSE IF i = Len(w) THEN ScriptLen(w[i].script)
                        ELSE ByteLen(w[i])]
         IN SpendWeight(out.val.script_sig, lens) <= Cov_max_satisfaction_weight(desc).val

\* C12: for a CovenantDescriptor d, script_code() = explicit_script() =
\* encode(), the script of ms followed by the covenant script of pk;
\* cov_script_code() is the post-codesep script whatever pk and ms are; and
\* every spend the interpreter classifies as CovScript carries that same
\* post-codesep script as its script code.
C12_ScriptCodes ==
    /\ (op \in {"script_code", "explicit_script"} /\ desc.variant = "Cov") =>
         /\ out = Ok(Ms_encode(desc.ms) \o verify_cov(desc.pk))
         /\ out = Ok(Cov_encode(desc))
         /\ out = Ok(Cov_explicit_script(desc))
         /\ out = Ok(Cov_script_code(desc))
    /\ op = "cov_script_code" => out = Ok(post_codesep_script)
    /\ (op = "from_txdata" /\ out.ok /\ out.val.inner.inner = "CovScript") =>
         out.val.script_code = Some(post_codesep_script)

\* script_code of a covenant over a multi: the full script, which is not the
\* post-codesep script
C12_Witness ==
    /\ op = "script_code" /\ desc.variant = "Cov" /\ desc.ms.frag = "multi"
    /\ out = Ok(Cov_encode(desc))
    /\ out.val # post_codesep_script

\* C13: Pkh::get_satisfaction returns an empty witness and a script_sig of
\* exactly two pushes, the signature then the public key, when the satisfier
\* has a signature for pk, and MissingSig(pk) otherwise;
\* get_satisfaction_mall returns the same; Bare::get_satisfaction returns an
\* empty witness and the whole satisfaction as pushes of script_sig.
C13_LegacySatisfaction ==
    /\ (op = "get_satisfaction" /\ desc.variant = "Pkh") =>
         LET sig == arg.s.sigs[desc.pk] IN
         /\ sig.some =>
              out = Ok([witness |-> <<>>,
                        script_sig |-> <<[t |-> "Push",
                                          data |-> [der |-> sig.v.sig,
                                                    hash_ty |-> sig.v.hash_ty]],
                                         [t |-> "Pubkey", k |-> desc.pk]>>])
         /\ ~sig.some => out = Err([kind |-> "MissingSig", pk |-> desc.pk])
         /\ Pkh_get_satisfaction_mall(desc, arg.s) = Pkh_get_satisfaction(desc, arg.s)
    /\ (op = "get_satisfaction" /\ desc.variant = "Bare" /\ out.ok) =>
         LET sat == Ms_satisfy(desc.ms, arg.s).val IN
         /\ out.val.witness = <<>>
         /\ Len(out.val.script_sig) = Len(sat)
         /\ \A i \in 1..Len(sat) :
              out.val.script_sig[i] =
                  IF "empty" \in DOMAIN sat[i] THEN [t |-> "Num", n |-> 0]
                  ELSE [t |-> "Push", data |-> sat[i]]

\* get_satisfaction_mall of a Pkh whose key the satisfier has signed for
C13_Witness ==
    /\ op = "get_satisfaction" /\ desc.variant = "Pkh" /\ arg.mall
    /\ arg.s.sigs[desc.pk].some
    /\ out.ok /\ Len(out.val.script_sig) = 2 /\ out.val.witness = <<>>

\* C14: address() and blind_addr() of a Bare descriptor, called directly or
\* through PreTaprootDescriptor, fail with BareDescriptorAddr for every
\* script and every network; on a Pkh they succeed; every operation of
\* PreTaprootDescriptor, over each of its five variants, returns the result
\* of the same operation of the wrapped descriptor; and its explicit_script
\* and script_code never fail.
C14_AddressAndDispatch ==
    LET wraps == desc.variant = "PreTaproot"
        d == IF wraps THEN desc.inner ELSE desc
        v == d.variant
    IN
    /\ (op \in {"address", "blind_addr"} /\ v = "Bare") =>
         out = Err([kind |-> "BareDescriptorAddr"])
    /\ (op \in {"address", "blind_addr"} /\ v = "Pkh") => out.ok
    /\ wraps =>
         /\ v \in {"Bare", "Pkh", "Wpkh", "Sh", "Wsh"}
         /\ op = "address" =>
              out = CASE v = "Bare" -> Bare_address(d, arg.params)
                      [] v = "Pkh" -> Pkh_address(d, arg.params)
                      [] v = "Wpkh" -> Wpkh_address(d, arg.params)
                      [] v = "Sh" -> Sh_address(d, arg.params)
                      [] v = "Wsh" -> Wsh_address(d, arg.params)
         /\ op = "blind_addr" =>
              out = CASE v = "Bare" -> Bare_blind_addr(d, arg.blinder, arg.params)
                      [] v = "Pkh" -> Pkh_blind_addr(d, arg.blinder, arg.params)
                      [] v = "Wpkh" -> Wpkh_blind_addr(d, arg.blinder, arg.params)
                      [] v = "Sh" -> Sh_blind_addr(d, arg.blinder, arg.params)
                      [] v = "Wsh" -> Wsh_blind_addr(d, arg.blinder, arg.params)
         /\ op = "explicit_script" =>
              /\ out.ok
              /\ out = CASE v = "Bare" -> Bare_explicit_script(d)
                         [] v = "Pkh" -> Pkh_explicit_script(d)
                         [] v = "Wpkh" -> Wpkh_explicit_script(d)
                         [] v = "Sh" -> Sh_explicit_script(d)
                         [] v = "Wsh" -> Wsh_explicit_script(d)
         /\ op = "script_code" =>
              /\ out.ok
              /\ out = CASE v = "Bare" -> Bare_script_code(d)
                         [] v = "Pkh" -> Pkh_script_code(d)
                         [] v = "Wpkh" -> Wpkh_script_code(d)
                         [] v = "Sh" -> Sh_script_code(d)
                         [] v = "Wsh" -> Wsh_script_code(d)
         /\ (op = "get_satisfaction" /\ ~arg.mall) =>
              out = CASE v = "Bare" -> Bare_get_satisfaction(d, arg.s)
                      [] v = "Pkh" -> Pkh_get_satisfaction(d, arg.s)
                      [] v = "Wpkh" -> Wpkh_get_satisfaction(d, arg.s)
                      [] v = "Sh" -> Sh_get_satisfaction(d, arg.s)
                      [] v = "Wsh" -> Wsh_get_satisfaction(d, arg.s)
         /\ (op = "get_satisfaction" /\ arg.mall) =>
              out = CASE v = "Bare" -> Bare_get_satisfaction_mall(d, arg.s)
                      [] v = "Pkh" -> Pkh_get_satisfaction_mall(d, arg.s)
                      [] v = "Wpkh" -> Wpkh_get_satisfaction_mall(d, arg.s)
                      [] v = "Sh" -> Sh_get_satisfaction_mall(d, arg.s)
                      [] v = "Wsh" -> Wsh_get_satisfaction_mall(d, arg.s)
         /\ op = "max_satisfaction_weight" =>
              out = CASE v = "Bare" -> Bare_max_satisfaction_weight(d)
                      [] v = "Pkh" -> Pkh_max_satisfaction_weight(d)
                      [] v = "Wpkh" -> Wpkh_max_satisfaction_weight(d)
                      [] v = "Sh" -> Sh_max_satisfaction_weight(d)
                      [] v = "Wsh" -> Wsh_max_satisfaction_weight(d)
         /\ op = "to_string" =>
              out = CASE v = "Bare" -> Bare_fmt(d)
                      [] v = "Pkh" -> Pkh_fmt(d)
                      [] v = "Wpkh" -> Wpkh_fmt(d)
                      [] v = "Sh" -> Sh_fmt(d)
                      [] v = "Wsh" -> Wsh_fmt(d)

\* address() through the dispatcher on a wrapped Bare descriptor
C14_Witness ==
    /\ op = "address" /\ desc.variant = "PreTaproot" /\ desc.inner.variant = "Bare"
    /\ desc.inner.ms.frag = "multi"
    /\ ~out.ok /\ out.err.kind = "BareDescriptorAddr"

\* C15: on a p2pk prior script whose script_sig is made of pushes, a
\* non-empty witness gives NonEmptyWitness; with an empty witness a
\* compressed and an uncompressed key alike give PublicKey(key, Pk), the
\* whole script_sig stack as residual stack and the prior script as script
\* code, and an undecodable key gives PubkeyParseError.
C15_P2pk ==
    (op = "from_txdata" /\ is_p2pk(arg.spk) /\ ssig_stack_of(arg.script_sig).ok) =>
        LET k == arg.spk[1].k IN
        IF arg.witness # <<>> THEN out = Err([kind |-> "NonEmptyWitness"])
        ELSE IF k \in {"A", "B", "C", "U"}
        THEN out = Ok([inner |-> [inner |-> "PublicKey",
                                  key |-> [form |-> "Fullkey", k |-> k], ty |-> "Pk"],
                       stack |-> ssig_stack_of(arg.script_sig).val,
                       script_code |-> Some(arg.spk)])
        ELSE out = Err([kind |-> "PubkeyParseError"])

\* a p2pk spend with an uncompressed key and a signature in script_sig
C15_Witness ==
    /\ op = "from_txdata" /\ arg.spk = new_p2pk("U") /\ arg.witness = <<>>
    /\ Len(arg.script_sig) = 1
    /\ out.ok /\ out.val.inner.ty = "Pk" /\ Len(out.val.stack) = 1

\* C16: on a p2pkh prior script whose script_sig is made of pushes, a
\* non-empty witness gives NonEmptyWitness; else an empty script_sig gives
\* UnexpectedStackEnd; else the top element is decoded as a key, compressed
\* or not, and the result is IncorrectPubkeyHash unless the p2pkh script of
\* the key's hash is the prior script, and then PublicKey(key, Pkh), the
\* stack without its top and the prior script as script code.
C16_P2pkh ==
    (op = "from_txdata" /\ is_p2pkh(arg.spk) /\ ssig_stack_of(arg.script_sig).ok) =>
        LET stack == ssig_stack_of(arg.script_sig).val
            n == Len(stack)
        IN
        IF arg.witness # <<>> THEN out = Err([kind |-> "NonEmptyWitness"])
        ELSE IF n = 0 THEN out = Err([kind |-> "UnexpectedStackEnd"])
        ELSE IF "key" \in DOMAIN stack[n] /\ stack[n].key \in {"A", "B", "C", "U"}
        THEN IF arg.spk[3].h = stack[n].key
             THEN out = Ok([inner |-> [inner |-> "PublicKey",
                                       key |-> [form |-> "Fullkey", k |-> stack[n].key],
                                       ty |-> "Pkh"],
                            stack |-> SubSeq(stack, 1, n - 1),
                            script_code |-> Some(arg.spk)])
             ELSE out = Err([kind |-> "IncorrectPubkeyHash"])
        ELSE out = Err([kind |-> "PubkeyParseError"])

\* a p2pkh spend: signature then the uncompressed key the script commits to
C16_Witness ==
    /\ op = "from_txdata" /\ arg.spk = new_p2pkh("U") /\ arg.witness = <<>>
    /\ Len(arg.script_sig) = 2
    /\ out.ok /\ out.val.inner.ty = "Pkh" /\ Len(out.val.stack) = 1

\* C17: on a p2wpkh prior script a non-empty script_sig gives
\* NonEmptyScriptSig; with an empty one, an uncompressed key on top of the
\* witness gives UncompressedPubkey whether or not its hash is the program,
\* a compressed key gives IncorrectWPubkeyHash when its hash is not the
\* program and else PublicKey(key, Wpkh) with the p2pkh script of the key
\* hash, not the prior script, as script code.
C17_P2wpkh ==
    (op = "from_txdata" /\ is_v0_p2wpkh(arg.spk) /\ ssig_stack_of(arg.script_sig).ok) =>
        LET n == Len(arg.witness)
            top == arg.witness[n]
        IN
        IF arg.script_sig # <<>> THEN out = Err([kind |-> "NonEmptyScriptSig"])
        ELSE (n > 0 /\ "key" \in DOMAIN top) =>
            IF top.key = "U" THEN out = Err([kind |-> "UncompressedPubkey"])
            ELSE IF top.key \notin {"A", "B", "C"} THEN ~out.ok
            ELSE IF arg.spk[2].h # top.key THEN out = Err([kind |-> "IncorrectWPubkeyHash"])
            ELSE /\ out = Ok([inner |-> [inner |-> "PublicKey",
                                         key |-> [form |-> "Fullkey", k |-> top.key],
                                         ty |-> "Wpkh"],
                              stack |-> SubSeq(arg.witness, 1, n - 1),
                              script_code |-> Some(new_p2pkh(top.key))])
                 /\ out.val.script_code.v # arg.spk

\* the uncompressed key whose hash is the program, refused for its form
C17_Witness ==
    /\ op = "from_txdata" /\ arg.spk = new_v0_wpkh("U") /\ arg.script_sig = <<>>
    /\ Len(arg.witness) = 2 /\ arg.witness[2] = [key |-> "U"]
    /\ ~out.ok /\ out.err.kind = "UncompressedPubkey"

\* C18: on a p2wsh prior script with an empty script_sig the popped witness
\* element is first matched against the covenant script: when it is the
\* script of a Miniscript followed by the covenant script of a key the
\* result is CovScript(pk, ms), never Script(ast, Wsh); only otherwise is it
\* parsed as a Segwitv0 Miniscript, and a success is Script(ast, Wsh) with
\* the witness script as script code.
C18_CovenantFirst ==
    (op = "from_txdata" /\ is_v0_p2wsh(arg.spk) /\ arg.script_sig = <<>>
     /\ arg.witness # <<>>) =>
        LET n == Len(arg.witness)
            elem == arg.witness[n]
            covs == IF "script" \in DOMAIN elem
                    THEN {pm \in {"A", "B", "C", "U"} \X MsUniverse :
                            elem.script = Ms_encode(pm[2]) \o verify_cov(pm[1])}
                    ELSE {}
        IN
        /\ covs # {} =>
             \E pm \in covs :
                out = Ok([inner |-> [inner |-> "CovScript",
                                     key |-> [form |-> "Fullkey", k |-> pm[1]],
                                     ms |-> to_no_checks_ms(pm[2], "Fullkey")],
                          stack |-> SubSeq(arg.witness, 1, n - 1),
                          script_code |-> Some(post_codesep_script)])
        /\ (covs = {} /\ out.ok) =>
             /\ out.val.inner.inner = "Script" /\ out.val.inner.ty = "Wsh"
             /\ out.val.script_code =
                  Some(IF "script" \in DOMAIN elem THEN elem.script
                       ELSE Ms_encode(out.val.inner.ms))
             /\ out.val.stack = SubSeq(arg.witness, 1, n - 1)
        /\ (covs = {} /\ "script" \in DOMAIN elem
            /\ \E ms \in MsUniverse : elem.script = Ms_encode(ms)
            /\ arg.spk = new_v0_wsh(elem.script)) => out.ok

\* a covenant script on top of the witness, classified as CovScript
C18_Witness ==
    /\ op = "from_txdata" /\ is_v0_p2wsh(arg.spk) /\ arg.script_sig = <<>>
    /\ Len(arg.witness) = 2 /\ arg.witness[2] = [script |-> CovScript]
    /\ out.ok /\ out.val.inner.inner = "CovScript"

\* C19 as stated: on a taproot prior script every witness of two or more
\* elements whose top starts with the annex marker gives
\* TapAnnexUnsupported.
C19_AnnexAlways ==
    (op = "from_txdata" /\ is_v1_p2tr(arg.spk) /\ Len(arg.witness) >= 2
     /\ "annex" \in DOMAIN arg.witness[Len(arg.witness)]) =>
        out = Err([kind |-> "TapAnnexUnsupported"])

\* C19: on a taproot prior script with a decodable output key and an empty
\* script_sig, every witness of two or more elements whose top starts with
\* the annex marker gives TapAnnexUnsupported, also when the elements under
\* it are a script spend that verifies; a witness of the one element that
\* starts with the marker is a key spend.
C19_AnnexUnsupported ==
    (op = "from_txdata" /\ is_v1_p2tr(arg.spk) /\ arg.script_sig = <<>>
     /\ arg.spk[2].k \in {"A", "B", "C"}
     /\ arg.witness # <<>> /\ "annex" \in DOMAIN arg.witness[Len(arg.witness)]) =>
        IF Len(arg.witness) >= 2 THEN out = Err([kind |-> "TapAnnexUnsupported"])
        ELSE out = Ok([inner |-> [inner |-> "PublicKey",
                                  key |-> [form |-> "XOnly", k |-> arg.spk[2].k],
                                  ty |-> "Tr"],
                       stack |-> arg.witness,
                       script_code |-> None])

\* an annex on top of a script spend that commits to the output key
C19_Witness ==
    /\ op = "from_txdata" /\ arg.spk = new_v1_p2tr("A") /\ arg.script_sig = <<>>
    /\ arg.witness = <<[script |-> TapLeaf], [ctrl |-> [key |-> "A", leaf |-> TapLeaf]],
                       [annex |-> TRUE]>>
    /\ ~out.ok /\ out.err.kind = "TapAnnexUnsupported"

\* C20: on a taproot prior script with an empty script_sig and no annex, an
\* empty witness gives UnexpectedStackEnd; one element gives
\* PublicKey(output key, Tr), the witness unchanged and no script code; two
\* or more give ControlBlockVerificationError when the control block on top
\* does not commit the tap-script under it to the output key, and else
\* Script(ast, Tr), the witness under the two and the tap-script as script
\* code; no other successful classification has no script code.
C20_Taproot ==
    /\ (op = "from_txdata" /\ is_v1_p2tr(arg.spk) /\ arg.script_sig = <<>>
        /\ arg.spk[2].k \in {"A", "B", "C"} /\ ~has_annex(arg.witness)) =>
         LET n == Len(arg.witness)
             ctrl == arg.witness[n]
             tap == arg.witness[n - 1]
             commits == /\ ctrl.ctrl.key = arg.spk[2].k
                        /\ ctrl.ctrl.leaf = tap.script
         IN
         /\ n = 0 => out = Err([kind |-> "UnexpectedStackEnd"])
         /\ n = 1 => out = Ok([inner |-> [inner |-> "PublicKey",
                                          key |-> [form |-> "XOnly", k |-> arg.spk[2].k],
                                          ty |-> "Tr"],
                               stack |-> arg.witness,
                               script_code |-> None])
         /\ (n >= 2 /\ "ctrl" \in DOMAIN ctrl /\ "script" \in DOMAIN tap) =>
              IF ~commits THEN out = Err([kind |-> "ControlBlockVerificationError"])
              ELSE out.ok =>
                     /\ out.val.inner.inner = "Script" /\ out.val.inner.ty = "Tr"
                     /\ out.val.stack = SubSeq(arg.witness, 1, n - 2)
                     /\ out.val.script_code = Some(tap.script)
         \* the bytes of a public key read as a control block that commits
         \* nothing
         /\ (n >= 2 /\ "key" \in DOMAIN ctrl /\ ctrl.key \in {"A", "B", "C", "U"}
             /\ "script" \in DOMAIN tap) =>
              out = Err([kind |-> "ControlBlockVerificationError"])
    /\ (op = "from_txdata" /\ out.ok) =>
         (out.val.script_code = None
            <=> (out.val.inner.inner = "PublicKey" /\ out.val.inner.ty = "Tr"))

\* C21: on a p2sh prior script, when the popped redeem script hashes to the
\* embedded hash, a redeem script of the form 0 <20 bytes> gives ShWpkh or
\* an error and one of the form 0 <32 bytes> gives ShWsh or an error,
\* neither is classified as Sh; and a popped redeem script whose hash is
\* not the embedded hash gives IncorrectScriptHash.
C21_NestedRouting ==
    (op = "from_txdata" /\ is_p2sh(arg.spk) /\ ssig_stack_of(arg.script_sig).ok
     /\ arg.script_sig # <<>>) =>
        LET stack == ssig_stack_of(arg.script_sig).val
            elem == stack[Len(stack)]
            shape == IF "script" \in DOMAIN elem /\ Len(elem.script) = 2
                        /\ elem.script[1] = [t |-> "Num", n |-> 0]
                     THEN elem.script[2].t ELSE "other"
        IN
        IF arg.spk[2].h # elem THEN out = Err([kind |-> "IncorrectScriptHash"])
        ELSE /\ (shape = "Hash20" /\ out.ok) =>
                  (out.val.inner.inner = "PublicKey" /\ out.val.inner.ty = "ShWpkh")
             /\ (shape = "Hash32" /\ out.ok) =>
                  (out.val.inner.inner = "Script" /\ out.val.inner.ty = "ShWsh")
             /\ (shape \in {"Hash20", "Hash32"} /\ ~out.ok) =>
                  out.err.kind \in {"UnexpectedStackEnd", "NonEmptyScriptSig",
                                    "PubkeyParseError", "UncompressedPubkey",
                                    "IncorrectWScriptHash", "Miniscript"}

\* C22: the bare branch is reached only by a prior script that has none of
\* the p2pk, p2pkh, p2wpkh, p2wsh, taproot and p2sh shapes; there a non-empty
\* witness gives NonEmptyWitness, and else the prior script is parsed under
\* the Bare context: Script(ast, Bare), the whole script_sig stack and the
\* prior script as script code, or a parse error when it is no Miniscript.
C22_Bare ==
    LET shaped == \/ is_p2pk(arg.spk) \/ is_p2pkh(arg.spk) \/ is_v0_p2wpkh(arg.spk)
                  \/ is_v0_p2wsh(arg.spk) \/ is_v1_p2tr(arg.spk) \/ is_p2sh(arg.spk)
    IN
    /\ (op = "from_txdata" /\ out.ok /\ out.val.inner.inner = "Script"
        /\ out.val.inner.ty = "Bare") => ~shaped
    /\ (op = "from_txdata" /\ ~shaped /\ ssig_stack_of(arg.script_sig).ok) =>
         IF arg.witness # <<>> THEN out = Err([kind |-> "NonEmptyWitness"])
         ELSE /\ \A ms \in MsUniverse \cup {MsTrue, MsFalse} :
                   arg.spk = Ms_encode(ms) =>
                       out = Ok([inner |-> [inner |-> "Script",
                                            ms |-> to_no_checks_ms(ms, "Fullkey"),
                                            ty |-> "Bare"],
                                 stack |-> ssig_stack_of(arg.script_sig).val,
                                 script_code |-> Some(arg.spk)])
              /\ arg.spk = <<>> => out = Err([kind |-> "Miniscript"])

\* a bare multi() spent with two elements in script_sig
C22_Witness ==
    /\ op = "from_txdata" /\ arg.spk = Ms_encode(MsMulti(1, <<"A", "B">>))
    /\ arg.witness = <<>> /\ Len(arg.script_sig) = 2
    /\ out.ok /\ out.val.inner.ty = "Bare" /\ Len(out.val.stack) = 2

\* C23 as stated: in every branch, elements on the side the branch wants
\* empty give NonEmptyWitness or NonEmptyScriptSig and a pop from an empty
\* stack gives UnexpectedStackEnd, and nothing else; here for the Legacy
\* p2sh branch, whose popped redeem script hashes to the embedded hash and
\* has neither nested form.
C23_EmptySideLegacySh ==
    (op = "from_txdata" /\ is_p2sh(arg.spk) /\ ssig_stack_of(arg.script_sig).ok
     /\ arg.script_sig # <<>> /\ arg.witness # <<>>) =>
        LET stack == ssig_stack_of(arg.script_sig).val
            elem == stack[Len(stack)]
            nested == /\ "script" \in DOMAIN elem
                      /\ (is_v0_p2wpkh(elem.script) \/ is_v0_p2wsh(elem.script))
        IN (arg.spk[2].h = elem /\ ~nested) => out = Err([kind |-> "NonEmptyWitness"])

\* C23: elements on the side a branch wants empty give NonEmptyWitness
\* (p2pk, p2pkh, bare) or NonEmptyScriptSig (p2wpkh, p2wsh, taproot, and
\* nested p2sh once the redeem script is popped and the witness is not
\* empty), a pop from an empty stack gives UnexpectedStackEnd.  In the p2sh
\* branch a pushed top element is hashed first: one that does not hash to
\* the embedded hash gives IncorrectScriptHash whatever the witness, and a
\* Legacy redeem script with a non-empty witness gives the parse error when
\* it is no Miniscript and NonEmptyWitness when it parses.  A top element
\* OP_0 or OP_1 is no push: nothing is hashed before the witness test, so a
\* non-empty witness gives NonEmptyWitness, and with an empty witness the
\* one-opcode script is compared with the embedded hash.
C23_EmptySide ==
    (op = "from_txdata" /\ ssig_stack_of(arg.script_sig).ok) =>
        LET stack == ssig_stack_of(arg.script_sig).val
            spk == arg.spk
            wit == arg.witness
            NonEmptyWitness == out = Err([kind |-> "NonEmptyWitness"])
            NonEmptyScriptSig == out = Err([kind |-> "NonEmptyScriptSig"])
            UnexpectedStackEnd == out = Err([kind |-> "UnexpectedStackEnd"])
        IN
        CASE is_p2pk(spk) -> wit # <<>> => NonEmptyWitness
          [] is_p2pkh(spk) ->
               /\ wit # <<>> => NonEmptyWitness
               /\ (wit = <<>> /\ stack = <<>>) => UnexpectedStackEnd
          [] is_v0_p2wpkh(spk) \/ is_v0_p2wsh(spk) ->
               /\ stack # <<>> => NonEmptyScriptSig
               /\ (stack = <<>> /\ wit = <<>>) => UnexpectedStackEnd
          [] is_v1_p2tr(spk) ->
               /\ stack # <<>> => NonEmptyScriptSig
               /\ (stack = <<>> /\ wit = <<>> /\ spk[2].k \in {"A", "B", "C"}) =>
                     UnexpectedStackEnd
          [] is_p2sh(spk) ->
               /\ stack = <<>> => UnexpectedStackEnd
               /\ stack # <<>> =>
                     LET elem == stack[Len(stack)]
                         IncorrectScriptHash == out = Err([kind |-> "IncorrectScriptHash"])
                     IN
                     IF "empty" \in DOMAIN elem \/ "one" \in DOMAIN elem
                     THEN /\ wit # <<>> => NonEmptyWitness
                          /\ (wit = <<>> /\ spk[2].h #
                                 [script |-> IF "one" \in DOMAIN elem THEN <<TkNum(1)>>
                                             ELSE <<TkNum(0)>>]) => IncorrectScriptHash
                     ELSE IF spk[2].h # elem THEN IncorrectScriptHash
                     ELSE IF /\ "script" \in DOMAIN elem
                             /\ (is_v0_p2wpkh(elem.script) \/ is_v0_p2wsh(elem.script))
                     THEN /\ wit = <<>> => UnexpectedStackEnd
                          /\ (wit # <<>> /\ Len(stack) > 1) => NonEmptyScriptSig
                     ELSE wit # <<>> =>
                            IF /\ "script" \in DOMAIN elem
                               /\ \E ms \in MsUniverse \cup {MsMulti(1, <<"A", "U">>)} :
                                     elem.script = Ms_encode(ms)
                            THEN NonEmptyWitness
                            ELSE out = Err([kind |-> "Miniscript"])
          [] OTHER -> wit # <<>> => NonEmptyWitness

\* a Legacy p2sh spend of a redeem script that parses, with a witness
C23_Witness ==
    /\ op = "from_txdata" /\ is_p2sh(arg.spk) /\ Len(arg.script_sig) = 3
    /\ arg.spk[2].h = [script |-> Ms_encode(MsMulti(1, <<"A", "U">>))]
    /\ arg.script_sig[3].data = arg.spk[2].h
    /\ arg.witness # <<>>
    /\ ~out.ok /\ out.err.kind = "NonEmptyWitness"

\* the two ceilings CovenantDescriptor::new enforces
CovLimits(d) ==
    /\ d.ms.ext.ops_count_sat.some
    /\ d.ms.ext.ops_count_sat.v + cov_script_ops - free_verify(d.ms) <= MAX_OPS_PER_SCRIPT
    /\ Ms_script_size(d.ms) + 58 - free_verify(d.ms) <= MAX_SCRIPT_SIZE

\* the calls of the model that return a CovenantDescriptor
ReturnsCov ==
    \/ op \in {"CovenantDescriptor::new", "CovenantDescriptor::from_tree"}
    \/ op \in {"from_str", "translate_pk"} /\ desc.variant = "Cov"

\* C25: every CovenantDescriptor a public route returns (new, from_tree,
\* from_str, translate_pk) keeps the two ceilings of new: the op count of ms
\* plus 24 minus the free verify is at most MAX_OPS_PER_SCRIPT, and the
\* script size plus 58 minus the free verify is at most MAX_SCRIPT_SIZE
C25_EveryRoute ==
    /\ desc.variant = "Cov" => CovLimits(desc)
    /\ (ReturnsCov /\ out.ok) => CovLimits(out.val)

\* C26: whenever from_txdata succeeds on a script-hash shape, the revealed
\* script is the committed one: on p2wsh (Script and CovScript alike) the
\* popped witness script hashes to the program, on p2sh the popped redeem
\* script hashes to the embedded hash, and on nested p2sh-wsh / p2sh-wpkh
\* the popped witness script / key hashes to the program of the redeem script
C26_Committed ==
    (op = "from_txdata" /\ out.ok) =>
        /\ is_v0_p2wsh(arg.spk) =>
              LET elem == Top(arg.witness) IN
              "script" \in DOMAIN elem /\ arg.spk[2].h = elem.script
        /\ is_p2sh(arg.spk) =>
              LET elem == Top(ssig_stack_of(arg.script_sig).val) IN
              /\ arg.spk[2].h = elem
              /\ out.val.inner.ty = "ShWsh" =>
                    LET w == Top(arg.witness) IN
                    "script" \in DOMAIN w /\ elem.script[2].h = w.script
              /\ out.val.inner.ty = "ShWpkh" =>
                    LET w == Top(arg.witness) IN
                    "key" \in DOMAIN w /\ elem.script[2].h = w.key

\* the form of the keys of a result of script type or pubkey type ty
FormOf(ty) == IF ty = "Tr" THEN "XOnly" ELSE "Fullkey"

\* C27: every successful from_txdata result keeps the key forms: the key of
\* PublicKey(key, t) is x-only exactly when t is Tr; the keys and key hashes
\* of Script(ast, t) are all x-only when t is Tr and all full for Bare, Sh,
\* Wsh and ShWsh; CovScript carries a full key and full keys in its script;
\* the conversion to the no-checks form maps distinct scripts to distinct
\* results, and no call panics
C27_KeyForms ==
    /\ (op = "from_txdata" /\ out.ok) =>
         LET in == out.val.inner IN
         CASE in.inner = "PublicKey" ->
                /\ in.ty \in {"Pk", "Pkh", "Wpkh", "ShWpkh", "Tr"}
                /\ in.key.form = FormOf(in.ty)
           [] in.inner = "Script" ->
                /\ in.ty \in {"Bare", "Sh", "Wsh", "ShWsh", "Tr"}
                /\ \A i \in 1..Len(in.ms.items) :
                      /\ in.ms.items[i].form = FormOf(in.ty)
                      /\ in.ms.items[i].kind \in {"key", "hash"}
           [] OTHER ->
                /\ in.inner = "CovScript"
                /\ in.key.form = "Fullkey"
                /\ \A i \in 1..Len(in.ms.items) : in.ms.items[i].form = "Fullkey"
    /\ (op = "from_txdata" /\ ~out.ok) => out.err.kind # "panic"
    /\ \A form \in {"Fullkey", "XOnly"} :
         \A ms1, ms2 \in MsUniverse \cup {MsTrue, MsFalse} :
            to_no_checks_ms(ms1, form) = to_no_checks_ms(ms2, form) => ms1 = ms2

\* a taproot script spend is classified with the x-only key of its leaf
C27_Witness ==
    /\ op = "from_txdata" /\ out.ok
    /\ out.val.inner.inner = "Script" /\ out.val.inner.ty = "Tr"
    /\ Len(out.val.inner.ms.items) = 1
    /\ out.val.inner.ms.items[1].form = "XOnly"

\* the instructions of the model that push data
PushInstruction(tk) == tk.t \in {"Push", "Pubkey", "Num", "Hash20", "Hash32", "XOnly"}

\* C28: whenever script_sig holds an instruction that is not a push,
\* from_txdata fails with ExpectedPush ('expected push in script') whatever
\* the shape of the prior script and whatever the witness, the segwit and
\* taproot shapes included
C28_ExpectedPush ==
    (op = "from_txdata"
     /\ \E i \in 1..Len(arg.script_sig) : ~PushInstruction(arg.script_sig[i])) =>
        out = Err([kind |-> "ExpectedPush"])

\* a p2wsh prior script with an opcode in script_sig and the witness script
\* in the witness
C28_Witness ==
    /\ op = "from_txdata" /\ is_v0_p2wsh(arg.spk)
    /\ Len(arg.script_sig) = 2 /\ arg.script_sig[2] = [t |-> "Dup"]
    /\ Len(arg.witness) = 2 /\ "script" \in DOMAIN arg.witness[2]
    /\ arg.spk[2].h = arg.witness[2].script
    /\ out = Err([kind |-> "ExpectedPush"])

\* C29: on every successful from_txdata the returned stack is the script_sig
\* stack (Pk, Pkh, Sh, Bare) or the witness stack (Wpkh, Wsh, CovScript,
\* ShWpkh, ShWsh, Tr) without its consumed top elements (none for Pk, Bare
\* and the Tr key spend, one for Pkh, Sh, Wpkh, Wsh, CovScript, ShWpkh and
\* ShWsh, two for the Tr script spend), the rest unchanged and in order, and
\* the other stack holds nothing beyond what was consumed from it
C29_Residual ==
    (op = "from_txdata" /\ out.ok) =>
        LET in == out.val.inner
            ssig == ssig_stack_of(arg.script_sig).val
            wit == arg.witness
            kind == IF in.inner = "CovScript" THEN "CovScript"
                    ELSE IF in.ty = "Tr" THEN (IF in.inner = "PublicKey" THEN "TrKey"
                                               ELSE "TrScript")
                    ELSE in.ty
            n == CASE kind \in {"Pk", "Bare", "TrKey"} -> 0
                   [] kind = "TrScript" -> 2
                   [] OTHER -> 1
        IN IF kind \in {"Pk", "Pkh", "Sh", "Bare"}
           THEN /\ Len(ssig) >= n
                /\ out.val.stack = SubSeq(ssig, 1, Len(ssig) - n)
                /\ wit = <<>>
           ELSE /\ Len(wit) >= n
                /\ out.val.stack = SubSeq(wit, 1, Len(wit) - n)
                /\ Len(ssig) = IF kind \in {"ShWpkh", "ShWsh"} THEN 1 ELSE 0

\* a nested p2sh-wsh spend: the redeem script is the whole script_sig and
\* the witness loses its witness script
C29_Witness ==
    /\ op = "from_txdata" /\ out.ok
    /\ out.val.inner.inner = "Script" /\ out.val.inner.ty = "ShWsh"
    /\ Len(arg.script_sig) = 1 /\ Len(arg.witness) = 2
    /\ out.val.stack = <<arg.witness[1]>>

\* C30: descriptor and interpreter agree.  The spend a CovenantDescriptor d
\* builds with get_satisfaction is classified by from_txdata, on
\* d.script_pubkey(), as CovScript(d.pk, d.ms in the no-checks form) with
\* the witness without its last element as stack; parse_insane(d.encode())
\* is d, for the descriptors made by new and for those from_tree returns;
\* and the spend Pkh(pk) builds is classified as PublicKey(pk, Pkh) with
\* the signature alone as stack
C30_Agreement ==
    /\ (op = "CovenantDescriptor::get_satisfaction" /\ out.ok) =>
          LET r == from_txdata(Cov_script_pubkey(desc), out.val.script_sig, out.val.witness) IN
          /\ r.ok
          /\ r.val.inner = InnerCovScript(BitcoinKey("Fullkey", desc.pk),
                                          to_no_checks_ms(desc.ms, "Fullkey"))
          /\ r.val.stack = SubSeq(out.val.witness, 1, Len(out.val.witness) - 1)
    /\ (desc.variant = "Cov" /\ Enumerated(desc.ms)) =>
          Cov_parse_insane(Cov_encode(desc)) = Ok(desc)
    /\ (op = "CovenantDescriptor::from_tree" /\ out.ok) =>
          Cov_parse_insane(Cov_encode(out.val)) = Ok(out.val)
    /\ (op = "get_satisfaction" /\ desc.variant = "Pkh" /\ out.ok) =>
          LET r == from_txdata(Pkh_spk(desc), out.val.script_sig, out.val.witness) IN
          /\ r.ok
          /\ r.val.inner = InnerPublicKey(BitcoinKey("Fullkey", desc.pk), "Pkh")
          /\ r.val.stack = <<sig_to_vec(arg.s.sigs[desc.pk].v)>>

====
